---- MODULE Spec2Model ----
(***************************************************************************)
(* Model of pynapple's time series containers (core/time_series.py):       *)
(* Ts, Tsd and TsdFrame, their constructors and the operations restrict,   *)
(* __getitem__, __setitem__, count, bin_average, threshold, value_from and *)
(* interpolate.                                                            *)
(*                                                                         *)
(* Time is an integer number of ticks on the grid 0..MaxT (the code rounds *)
(* every timestamp to a fixed precision, so a grid is what it works on).   *)
(* Data values are small integers; NaN is the sentinel value NaN.          *)
(* An interval set is a sequence of pairs <<start, end>>.                  *)
(* The numpy arrays that hold the data are buffers in bufs, a container    *)
(* refers to its values through a view [buf, off, len] so that two         *)
(* containers sharing one array is a state the model can be in.            *)
(* A TsdFrame is modelled with one data column (d of shape (n, 1), the     *)
(* shape line 914-915 gives a 1-D d) and a column label array.             *)
(***************************************************************************)
EXTENDS Integers, Sequences, FiniteSets, TLC

VARIABLES objs, bufs, d_held, last

vars == <<objs, bufs, d_held, last>>

\* ---------------------------------------------------------------- bounds
MaxT == 2
MaxLen == 2
MaxIv == 2
MaxVal == 1

Times == 0..MaxT
Vals == 0..MaxVal
\* the caller's two variables, x = 1 and y = 2, and the arrays they and the
\* caller's d can refer to
Slots == {1, 2}
BufIds == {1, 2, 3}

\* ------------------------------------------------------------- utilities
NaN == 0 - 1

Range(s) == {s[i] : i \in DOMAIN s}

Min(S) == CHOOSE x \in S : \A y \in S : x <= y

RECURSIVE SetToSortedSeq(_)
SetToSortedSeq(S) ==
    IF S = {} THEN <<>> ELSE <<Min(S)>> \o SetToSortedSeq(S \ {Min(S)})

RECURSIVE SumSeq(_)
SumSeq(s) == IF s = <<>> THEN 0 ELSE Head(s) + SumSeq(Tail(s))

RECURSIVE Gcd(_, _)
Gcd(a, b) == IF b = 0 THEN a ELSE Gcd(b, a % b)

\* numpy float division n / d of two non-negative numbers, as a reduced
\* fraction: <<1, 0>> is inf (n / 0.0, n > 0) and <<0, 0>> is nan (0 / 0.0)
Div(n, d) ==
    IF d = 0 THEN (IF n = 0 THEN <<0, 0>> ELSE <<1, 0>>)
    ELSE <<n \div Gcd(n, d), d \div Gcd(n, d)>>

\* the float 0.0
Zero == <<0, 1>>

\* ------------------------------------------------- time index utilities
\* time_units.sort_timestamps: ascending, duplicates collapsed
sort_timestamps(t) == SetToSortedSeq(Range(t))

\* the time units and what callers pass as time_units
Units == {"s", "ms", "us"}
UnitArgs == Units \cup {"foo"}

PerSecond(units) ==
    IF units = "s" THEN 1 ELSE IF units = "ms" THEN 1000 ELSE 1000000

\* time_units.format_timestamps on a units it accepts: the value in seconds
format_timestamps(v, units) == v \div PerSecond(units)

\* ------------------------------------------------------ interval algebra
\* the empty interval set, IntervalSet(pd.DataFrame(columns=["start","end"]))
EmptySet == <<>>

\* time_support=None of the constructors, ep=None of the methods
NoneTS == <<<<NaN, NaN>>>>

\* an ep that is neither an IntervalSet nor None (a list, a number)
NotAnIntervalSet == <<<<0, NaN>>>>

IsCanonical(ep) ==
    /\ \A k \in DOMAIN ep : ep[k][1] <= ep[k][2]
    /\ \A k \in DOMAIN ep : k > 1 => ep[k - 1][2] < ep[k][1]

RECURSIVE MergeSorted(_, _)
MergeSorted(acc, rest) ==
    IF rest = <<>> THEN acc
    ELSE IF acc # <<>> /\ Head(rest)[1] <= acc[Len(acc)][2]
         THEN MergeSorted(
                [acc EXCEPT ![Len(acc)] =
                    <<acc[Len(acc)][1],
                      IF Head(rest)[2] > acc[Len(acc)][2]
                      THEN Head(rest)[2] ELSE acc[Len(acc)][2]>>],
                Tail(rest))
         ELSE MergeSorted(Append(acc, Head(rest)), Tail(rest))

\* IntervalSet(start=starts, end=ends): sort by start, merge intervals
\* whose start is <= the previous end
IntervalSet(starts, ends) ==
    LET pairs == {<<starts[k], ends[k]>> : k \in DOMAIN starts}
        lt(a, b) == a[1] < b[1] \/ (a[1] = b[1] /\ a[2] < b[2])
        n == Cardinality(pairs)
        sorted == CHOOSE s \in [1..n -> pairs] :
                     /\ Range(s) = pairs
                     /\ \A i \in 1..n : \A j \in 1..n : i < j => lt(s[i], s[j])
    IN MergeSorted(<<>>, sorted)

Starts(ep) == [k \in DOMAIN ep |-> ep[k][1]]
Ends(ep) == [k \in DOMAIN ep |-> ep[k][2]]

\* np.sum(time_support.values[:, 1] - time_support.values[:, 0])
TotalDuration(ep) == SumSeq([k \in DOMAIN ep |-> ep[k][2] - ep[k][1]])

InEp(x, ep) == \E k \in DOMAIN ep : ep[k][1] <= x /\ x <= ep[k][2]

\* IntervalSet.intersect: the overlaps of every pair of intervals of the two
\* closed sets
intersect(A, B) ==
    LET ov == {<<IF A[i][1] > B[j][1] THEN A[i][1] ELSE B[j][1],
                 IF A[i][2] < B[j][2] THEN A[i][2] ELSE B[j][2]>> :
                    <<i, j>> \in (DOMAIN A) \X (DOMAIN B)}
        ok == SetToSortedSeq({p[1] : p \in {q \in ov : q[1] <= q[2]}})
    IN [k \in DOMAIN ok |->
          CHOOSE p \in ov : p[1] = ok[k] /\ p[1] <= p[2]]

\* the canonical interval sets over the grid with at most MaxIv intervals
RECURSIVE SetsUpTo(_)
SetsUpTo(n) ==
    IF n = 0 THEN {<<>>}
    ELSE SetsUpTo(n - 1) \cup
         {Append(ep, <<s, e>>) :
             ep \in {x \in SetsUpTo(n - 1) : Len(x) = n - 1},
             s \in Times, e \in Times}

Eps == {ep \in SetsUpTo(MaxIv) : IsCanonical(ep)}

\* ---------------------------------------------------------------- arrays
\* a view of a numpy buffer; NoView is "no array shared with anyone"
NoView == [buf |-> 0, off |-> 0, len |-> 0]

\* an array handed to a constructor: its content and, when it is an
\* existing buffer (a caller's array or a slice of some values), its view
Arr(view, val) == [view |-> view, val |-> val]

Fresh(val) == Arr(NoView, val)

\* jitted_functions.jitrestrict: the (time, data) pairs whose time lies in
\* an interval of ep, boundaries included; g is what a read past the end of
\* data_array yields
jitrestrict(time_array, data_array, ep, g) ==
    LET ix == SetToSortedSeq({i \in DOMAIN time_array : InEp(time_array[i], ep)})
    IN <<[j \in DOMAIN ix |-> time_array[ix[j]]],
         [j \in DOMAIN ix |->
            IF ix[j] \in DOMAIN data_array THEN data_array[ix[j]] ELSE g]>>

\* ------------------------------------------------------------ containers
Classes == {"Ts", "Tsd", "TsdFrame"}

\* a container as a value: the attributes the constructors set (nap_class,
\* index, values, time_support, rate, columns), the view through which it
\* holds its values, and the number of axes of values
Container(cls, index, d, time_support, rate, columns, ndim) ==
    [raised |-> FALSE, cls |-> cls, index |-> index, values |-> d.val,
     view |-> d.view, time_support |-> time_support, rate |-> rate,
     columns |-> columns, ndim |-> ndim]

\* what an operation yields when it raises
Raise(err) ==
    [raised |-> TRUE, cls |-> err, index |-> <<>>, values |-> <<>>,
     view |-> NoView, time_support |-> EmptySet, rate |-> Zero,
     columns |-> <<>>, ndim |-> 0]

\* what a method yields when it returns something that is no container
NotAContainer(what) == [Raise(what) EXCEPT !.raised = FALSE]

NoObj == NotAContainer("none")

\* Tsd.__init__ without the call of jitrestrict: the time_support is stored
\* and every sample is kept
Tsd_init_unrestricted(cls, t, d, time_support, g, strict) ==
    LET st == sort_timestamps(t)
        ts == IF time_support # NoneTS THEN time_support
              ELSE IntervalSet(<<st[1]>>, <<st[Len(st)]>>)
    IN
    IF Len(st) > 0
    THEN Container(cls, st, d, ts, Div(Len(st), TotalDuration(ts)), <<>>, 1)
    ELSE Container(cls, <<>>, Fresh(<<>>), EmptySet, Zero, <<>>, 1)

\* Tsd.__init__ deriving its support as (start=t[-1], end=t[0])
Tsd_init_reversed(cls, t, d, time_support, g, strict) ==
    LET st == sort_timestamps(t) IN
    IF Len(st) > 0
    THEN IF time_support # NoneTS
         THEN IF strict /\ Len(d.val) # Len(st)
              THEN Raise("IndexError")
              ELSE LET r == jitrestrict(st, d.val, time_support, g) IN
                   Container(cls, r[1], Fresh(r[2]), time_support,
                             Div(Len(r[1]), TotalDuration(time_support)),
                             <<>>, 1)
         ELSE LET ts == <<<<st[Len(st)], st[1]>>>> IN
              Container(cls, st, d, ts, Div(Len(st), st[Len(st)] - st[1]),
                        <<>>, 1)
    ELSE Container(cls, <<>>, Fresh(<<>>), EmptySet, Zero, <<>>, 1)

\* the body shared by Tsd.__init__ and TsdFrame.__init__ is written out in
\* both; g and strict are the two outcomes of jitrestrict on arrays of
\* different lengths (strict: it raises, otherwise it reads g past the end)
Tsd_init(cls, t, d, time_support, g, strict) ==
    LET st == sort_timestamps(t) IN
    IF Len(st) > 0
    THEN IF time_support # NoneTS
         THEN IF strict /\ Len(d.val) # Len(st)
              THEN Raise("IndexError")
              ELSE LET r == jitrestrict(st, d.val, time_support, g) IN
                   Container(cls, r[1], Fresh(r[2]), time_support,
                             Div(Len(r[1]), TotalDuration(time_support)),
                             <<>>, 1)
         ELSE LET ts == IntervalSet(<<st[1]>>, <<st[Len(st)]>>) IN
              Container(cls, st, d, ts, Div(Len(st), TotalDuration(ts)),
                        <<>>, 1)
    ELSE Container(cls, <<>>, Fresh(<<>>), EmptySet, Zero, <<>>, 1)

\* Ts.__init__: d is None, so Tsd.__init__ takes np.empty_like(t), an
\* uninitialised array, for the data; garbage is what it holds
Ts_init(t, time_support, garbage, g, strict) ==
    Tsd_init("Ts", t, Fresh(garbage), time_support, g, strict)

\* columns = <<>> stands for "no columns keyword": np.arange(d.shape[1])
TsdFrame_init(t, d, time_support, columns, g, strict) ==
    LET st == sort_timestamps(t)
        c == IF columns = <<>> THEN <<0>> ELSE columns
    IN
    IF Len(st) > 0
    THEN IF time_support # NoneTS
         THEN IF strict /\ Len(d.val) # Len(st)
              THEN Raise("IndexError")
              ELSE LET r == jitrestrict(st, d.val, time_support, g) IN
                   Container("TsdFrame", r[1], Fresh(r[2]), time_support,
                             Div(Len(r[1]), TotalDuration(time_support)),
                             c, 2)
         ELSE LET ts == IntervalSet(<<st[1]>>, <<st[Len(st)]>>) IN
              Container("TsdFrame", st, d, ts,
                        Div(Len(st), TotalDuration(ts)), c, 2)
    ELSE Container("TsdFrame", <<>>, Fresh(<<>>), EmptySet, Zero, c, 1)

\* what a method call yields: the receiver and the container argument as
\* the call leaves them, and the returned value, which every method builds
\* with a constructor call (return Tsd(...)) when it does not raise
Ret(self, arg, out) ==
    [self |-> self, arg |-> arg, out |-> out, newobj |-> TRUE]

\* ------------------------------------------------------------- restrict
\* Tsd.restrict working on the receiver: it restricts self and returns it
Tsd_restrict_inplace(self, ep, g, strict) ==
    LET r == jitrestrict(self.index, self.values, ep, g)
        me == [self EXCEPT !.index = r[1], !.values = r[2], !.view = NoView,
                           !.time_support = ep]
    IN [self |-> me, arg |-> NoObj, out |-> me, newobj |-> FALSE]

\* Tsd.restrict reading only the first interval of ep (starts[0], ends[0])
Tsd_restrict_first_interval(self, ep, g, strict) ==
    IF strict /\ Len(self.values) # Len(self.index)
    THEN Ret(self, NoObj, Raise("IndexError"))
    ELSE LET r == jitrestrict(self.index, self.values,
                              IF ep = <<>> THEN ep ELSE <<ep[1]>>, g) IN
         Ret(self, NoObj, Tsd_init("Tsd", r[1], Fresh(r[2]), ep, g, strict))

\* Tsd.restrict (Ts inherits it): g, strict as in Tsd_init
Tsd_restrict(self, ep, g, strict) ==
    IF ep = NotAnIntervalSet
    THEN Ret(self, NoObj, Raise("AttributeError"))
    ELSE IF strict /\ Len(self.values) # Len(self.index)
    THEN Ret(self, NoObj, Raise("IndexError"))
    ELSE LET r == jitrestrict(self.index, self.values, ep, g) IN
         Ret(self, NoObj, Tsd_init("Tsd", r[1], Fresh(r[2]), ep, g, strict))

TsdFrame_restrict(self, iset, g, strict) ==
    IF iset = NotAnIntervalSet
    THEN Ret(self, NoObj, Raise("AttributeError"))
    ELSE IF strict /\ Len(self.values) # Len(self.index)
    THEN Ret(self, NoObj, Raise("IndexError"))
    ELSE LET r == jitrestrict(self.index, self.values, iset, g) IN
         Ret(self, NoObj,
             TsdFrame_init(r[1], Fresh(r[2]), iset, self.columns, g, strict))

\* ------------------------------------------- __getitem__, __setitem__
\* keys: <<"int", k, 0>> is x[k], <<"slice", a, b>> is x[a:b] (0-based)
Keys ==
    {<<"int", k, 0>> : k \in 0..MaxLen} \cup
    {<<"slice", a, b>> : a \in 0..MaxLen, b \in 0..MaxLen}

Clamp(i, n) == IF i > n THEN n ELSE i

\* numpy's s[a:b] for 0 <= a, b
Slice(s, a, b) == SubSeq(s, Clamp(a, Len(s)) + 1, Clamp(b, Len(s)))

\* the view numpy returns for values[a:b]: the same buffer
SliceView(self, a, b) ==
    LET lo == Clamp(a, Len(self.values))
        hi == Clamp(b, Len(self.values))
    IN [buf |-> self.view.buf, off |-> self.view.off + lo,
        len |-> IF hi > lo THEN hi - lo ELSE 0]

SliceArr(self, a, b) == Arr(SliceView(self, a, b), Slice(self.values, a, b))

\* Tsd.__getitem__ (Ts inherits it)
Tsd_getitem(self, key) ==
    IF key[1] = "int"
    THEN IF key[2] < Len(self.values) /\ key[2] < Len(self.index)
         THEN Ret(self, NoObj,
                  Tsd_init("Tsd", <<self.index[key[2] + 1]>>,
                           Fresh(<<self.values[key[2] + 1]>>), NoneTS,
                           0, FALSE))
         ELSE Ret(self, NoObj, Raise("IndexError"))
    ELSE Ret(self, NoObj,
             Tsd_init("Tsd", Slice(self.index, key[2], key[3]),
                      SliceArr(self, key[2], key[3]), NoneTS, 0, FALSE))

TsdFrame_getitem(self, key) ==
    IF key[1] = "int"
    THEN IF key[2] < Len(self.values) /\ key[2] < Len(self.index)
         THEN Ret(self, NoObj,
                  TsdFrame_init(<<self.index[key[2] + 1]>>,
                                SliceArr(self, key[2], key[2] + 1), NoneTS,
                                <<>>, 0, FALSE))
         ELSE Ret(self, NoObj, Raise("IndexError"))
    ELSE LET index == Slice(self.index, key[2], key[3])
             output == SliceArr(self, key[2], key[3])
         IN IF Len(output.val) = Len(index)
            THEN IF self.ndim = 1
                 THEN Ret(self, NoObj,
                          Tsd_init("Tsd", index, output, NoneTS, 0, FALSE))
                 ELSE Ret(self, NoObj,
                          TsdFrame_init(index, output, NoneTS, <<>>,
                                        0, FALSE))
            ELSE Ret(self, NoObj, NotAContainer("NoneType"))

\* Tsd.__setitem__ and TsdFrame.__setitem__, key an integer k
setitem(self, k, value) ==
    IF k < Len(self.values)
    THEN Ret([self EXCEPT !.values[k + 1] = value], NoObj,
             NotAContainer("NoneType"))
    ELSE Ret(self, NoObj, Raise("IndexError"))

\* ------------------------------------------------- windowed algorithms
\* the data array as a kernel reads it along a time array of n samples: a
\* read past the end of the data yields g
Pad(d, n, g) == [i \in 1..n |-> IF i \in DOMAIN d THEN d[i] ELSE g]

InIv(x, iv) == iv[1] <= x /\ x <= iv[2]

RECURSIVE Concat(_)
Concat(ss) == IF ss = <<>> THEN <<>> ELSE Head(ss) \o Concat(Tail(ss))

\* jitted_functions.jittsrestrict_with_count: the timestamps inside ep and
\* the number of timestamps in each interval
jittsrestrict_with_count(time_array, ep) ==
    <<jitrestrict(time_array, time_array, ep, 0)[1],
      [k \in DOMAIN ep |->
         Cardinality({i \in DOMAIN time_array : InIv(time_array[i], ep[k])})]>>

\* the bin sizes whose bin centers are on the grid
MaxBin == 2
BinSizes == {b \in 1..MaxBin : b % 2 = 0}

\* the number of bins of width b in an interval: bin j (from 0) has its
\* left edge at start + j*b and is emitted while its center is <= end
NBins(iv, b) ==
    IF 2 * (iv[2] - iv[1]) < b THEN 0
    ELSE (2 * (iv[2] - iv[1]) - b) \div (2 * b) + 1

\* the samples of interval iv that fall in its bin j: [left, left + b)
InBin(time_array, iv, b, j) ==
    {i \in DOMAIN time_array :
        /\ InIv(time_array[i], iv)
        /\ iv[1] + j * b <= time_array[i]
        /\ time_array[i] < iv[1] + (j + 1) * b}

BinCenters(ep, b) ==
    Concat([k \in DOMAIN ep |->
              [j \in 1..NBins(ep[k], b) |-> ep[k][1] + (j - 1) * b + b \div 2]])

\* jitted_functions.jitcount
jitcount(time_array, ep, bin_size) ==
    <<BinCenters(ep, bin_size),
      Concat([k \in DOMAIN ep |->
                [j \in 1..NBins(ep[k], bin_size) |->
                   Cardinality(InBin(time_array, ep[k], bin_size, j - 1))]])>>

SumOver(d, I) == SumSeq([j \in 1..Cardinality(I) |-> d[SetToSortedSeq(I)[j]]])

\* the mean of the data of the samples I; NaN for no sample, NaN if one of
\* them is NaN
Mean(d, I) ==
    IF I = {} \/ \E i \in I : d[i] = NaN THEN NaN
    ELSE SumOver(d, I) \div Cardinality(I)

MeanOnGrid(d, I) ==
    IF I = {} THEN TRUE
    ELSE IF \E i \in I : d[i] = NaN THEN TRUE
    ELSE SumOver(d, I) % Cardinality(I) = 0

\* jitted_functions.jitbin and jitbin_array
jitbin(time_array, data_array, ep, bin_size) ==
    <<BinCenters(ep, bin_size),
      Concat([k \in DOMAIN ep |->
                [j \in 1..NBins(ep[k], bin_size) |->
                   Mean(data_array,
                        InBin(time_array, ep[k], bin_size, j - 1))]])>>

\* the inputs for which every bin mean is a value of the model
BinMeansOnGrid(time_array, data_array, ep, bin_size) ==
    \A k \in DOMAIN ep : \A j \in 1..NBins(ep[k], bin_size) :
       MeanOnGrid(data_array, InBin(time_array, ep[k], bin_size, j - 1))

Methods == {"above", "below", "aboveequal", "belowequal"}

Qualifies(v, thr, method) ==
    /\ v # NaN
    /\ CASE method = "above" -> v > thr
         [] method = "below" -> v < thr
         [] method = "aboveequal" -> v >= thr
         [] OTHER -> v <= thr

SameIv(ep, a, b) == \E k \in DOMAIN ep : InIv(a, ep[k]) /\ InIv(b, ep[k])

\* sample i - 1 (i + 1) is a neighbour of sample i in the same interval of
\* the support that does not qualify
BreaksBefore(t, q, ep, i) == i > 1 /\ SameIv(ep, t[i - 1], t[i]) /\ ~q[i - 1]
BreaksAfter(t, q, ep, i) ==
    i < Len(t) /\ SameIv(ep, t[i], t[i + 1]) /\ ~q[i + 1]

RunStart(t, q, ep, i) ==
    q[i] /\ (i = 1 \/ ~q[i - 1] \/ ~SameIv(ep, t[i - 1], t[i]))
RunEnd(t, q, ep, i) ==
    q[i] /\ (i = Len(t) \/ ~q[i + 1] \/ ~SameIv(ep, t[i], t[i + 1]))

\* jitted_functions.jitthreshold: the qualifying samples and the starts and
\* ends of the runs of qualifying samples, a boundary next to a sample that
\* does not qualify at the midpoint of the two timestamps
jitthreshold(time_array, data_array, ep, thr, method) ==
    LET q == [i \in DOMAIN time_array |->
                Qualifies(data_array[i], thr, method)]
        ix == SetToSortedSeq({i \in DOMAIN time_array : q[i]})
        ns == {IF BreaksBefore(time_array, q, ep, i)
               THEN (time_array[i - 1] + time_array[i]) \div 2
               ELSE time_array[i] :
                  i \in {j \in DOMAIN time_array :
                            RunStart(time_array, q, ep, j)}}
        ne == {IF BreaksAfter(time_array, q, ep, i)
               THEN (time_array[i] + time_array[i + 1]) \div 2
               ELSE time_array[i] :
                  i \in {j \in DOMAIN time_array :
                            RunEnd(time_array, q, ep, j)}}
    IN <<[j \in DOMAIN ix |-> time_array[ix[j]]],
         [j \in DOMAIN ix |-> data_array[ix[j]]],
         SetToSortedSeq(ns), SetToSortedSeq(ne)>>

\* the inputs for which every midpoint is on the grid
MidpointsOnGrid(time_array) ==
    \A i \in DOMAIN time_array :
       i > 1 => (time_array[i - 1] + time_array[i]) % 2 = 0

Abs(a) == IF a < 0 THEN 0 - a ELSE a

\* jitted_functions.jitvaluefrom and jitvaluefromtsdframe: for every
\* timestamp inside ep the data of the closest target sample of the same
\* interval, the earlier one of two equally close; NaN without a target
jitvaluefrom(time_array, time_target_array, data_target_array, ep) ==
    LET t == jitrestrict(time_array, time_array, ep, 0)[1]
        near(x) ==
            LET I == {i \in DOMAIN time_target_array :
                         SameIv(ep, x, time_target_array[i])}
            IN IF I = {} THEN NaN
               ELSE data_target_array[
                      CHOOSE i \in I : \A i2 \in I :
                         \/ Abs(time_target_array[i] - x)
                               < Abs(time_target_array[i2] - x)
                         \/ /\ Abs(time_target_array[i] - x)
                                  = Abs(time_target_array[i2] - x)
                            /\ time_target_array[i] <= time_target_array[i2]]
    IN <<t, [j \in DOMAIN t |-> near(t[j])], Starts(ep), Ends(ep)>>

\* ---------------------------------------------------------------- count
\* Tsd.count (Ts inherits it); bin_size = 0: no bin_size, ep = NoneTS: no ep
Tsd_count(self, bin_size, ep_arg) ==
    LET ep == IF ep_arg = NoneTS THEN self.time_support ELSE ep_arg IN
    IF bin_size > 0
    THEN LET r == jitcount(self.index, ep, bin_size) IN
         Ret(self, NoObj,
             Tsd_init("Tsd", r[1], Fresh(r[2]),
                      IntervalSet(Starts(ep), Ends(ep)), 0, FALSE))
    ELSE LET countin == jittsrestrict_with_count(self.index, ep)[2]
             t == [k \in DOMAIN ep |-> ep[k][1] + (ep[k][2] - ep[k][1]) \div 2]
         IN Ret(self, NoObj, Tsd_init("Tsd", t, Fresh(countin), ep, 0, FALSE))

\* Tsd.count(*args, **kwargs) from its arguments: a bin_size in time_units
\* (0: none), ep_arg and time_units, the two passed by keyword (kw) or by
\* position.  By keyword an ep that is no IntervalSet raises and any string
\* is taken as time_units; by position an argument that is no IntervalSet
\* and a string that is no unit are skipped.  format_timestamps is reached
\* with a bin_size only
Tsd_count_args(self, bin_size, ep_arg, time_units, kw) ==
    LET units == IF kw \/ time_units \in Units THEN time_units ELSE "s"
        ep == IF ep_arg = NotAnIntervalSet THEN NoneTS ELSE ep_arg
    IN IF kw /\ ep_arg = NotAnIntervalSet
       THEN Ret(self, NoObj, Raise("ValueError"))
       ELSE IF bin_size > 0 /\ units \notin Units
       THEN Ret(self, NoObj, Raise("ValueError"))
       ELSE Tsd_count(self,
                      IF bin_size > 0 THEN format_timestamps(bin_size, units)
                      ELSE 0,
                      ep)

\* the interval sets whose interval centers are on the grid
CentersOnGrid(ep) == \A k \in DOMAIN ep : (ep[k][2] - ep[k][1]) % 2 = 0

\* ---------------------------------------------------------- bin_average
Tsd_bin_average(self, bin_size, ep_arg, g, strict) ==
    LET ep == IF ep_arg \in {NoneTS, NotAnIntervalSet}
              THEN self.time_support ELSE ep_arg IN
    IF strict /\ Len(self.values) # Len(self.index)
    THEN Ret(self, NoObj, Raise("IndexError"))
    ELSE LET r == jitbin(self.index, Pad(self.values, Len(self.index), g),
                         ep, bin_size)
         IN Ret(self, NoObj,
                Tsd_init("Tsd", r[1], Fresh(r[2]),
                         IntervalSet(Starts(ep), Ends(ep)), 0, FALSE))

TsdFrame_bin_average(self, bin_size, ep_arg, g, strict) ==
    LET ep == IF ep_arg \in {NoneTS, NotAnIntervalSet}
              THEN self.time_support ELSE ep_arg IN
    IF strict /\ Len(self.values) # Len(self.index)
    THEN Ret(self, NoObj, Raise("IndexError"))
    ELSE LET r == jitbin(self.index, Pad(self.values, Len(self.index), g),
                         ep, bin_size)
         IN Ret(self, NoObj,
                TsdFrame_init(r[1], Fresh(r[2]),
                              IntervalSet(Starts(ep), Ends(ep)), <<>>,
                              0, FALSE))

\* bin_average(bin_size, ep, time_units) of Tsd and of TsdFrame:
\* format_timestamps (lines 579, 1313) does not take a units it does not know
bin_average_units(self, bin_size, ep_arg, time_units, g, strict) ==
    IF time_units \notin Units
    THEN Ret(self, NoObj, Raise("ValueError"))
    ELSE IF self.cls = "TsdFrame"
    THEN TsdFrame_bin_average(self, format_timestamps(bin_size, time_units),
                              ep_arg, g, strict)
    ELSE Tsd_bin_average(self, format_timestamps(bin_size, time_units),
                         ep_arg, g, strict)

\* ------------------------------------------------------------ threshold
\* what callers pass as method: the four methods and another string
MethodArgs == Methods \cup {"bla"}

\* jitthreshold followed by IntervalSet(start=ns, end=ne) on a series with
\* samples of which none qualifies: no epoch is found (RuntimeError)
NoEpochFound(data_array, thr, method) ==
    /\ data_array # <<>>
    /\ \A i \in DOMAIN data_array : ~Qualifies(data_array[i], thr, method)

\* Tsd.threshold storing the time_support of the receiver in the result
Tsd_threshold_keeps_support(self, thr, method, g, strict) ==
    LET r == jitthreshold(self.index, Pad(self.values, Len(self.index), g),
                          self.time_support, thr, method)
    IN Ret(self, NoObj,
           Tsd_init("Tsd", r[1], Fresh(r[2]), self.time_support, 0, FALSE))

\* Tsd.threshold without its checks: any method string is taken, and a
\* series of which no sample qualifies yields an empty Tsd
Tsd_threshold_unchecked(self, thr, method, g, strict) ==
    LET r == jitthreshold(self.index, Pad(self.values, Len(self.index), g),
                          self.time_support, thr, method)
    IN Ret(self, NoObj,
           Tsd_init("Tsd", r[1], Fresh(r[2]), IntervalSet(r[3], r[4]),
                    0, FALSE))

\* Tsd.threshold (Ts inherits it)
Tsd_threshold(self, thr, method, g, strict) ==
    IF method \notin Methods
    THEN Ret(self, NoObj, Raise("ValueError"))
    ELSE IF strict /\ Len(self.values) # Len(self.index)
    THEN Ret(self, NoObj, Raise("IndexError"))
    ELSE IF NoEpochFound(Pad(self.values, Len(self.index), g), thr, method)
    THEN Ret(self, NoObj, Raise("RuntimeError"))
    ELSE LET r == jitthreshold(self.index,
                               Pad(self.values, Len(self.index), g),
                               self.time_support, thr, method)
         IN Ret(self, NoObj,
                Tsd_init("Tsd", r[1], Fresh(r[2]), IntervalSet(r[3], r[4]),
                         0, FALSE))

\* ----------------------------------------------------------- value_from
\* value_from with ep defaulting to the time_support of the receiver
value_from_default_self(self, data, ep_arg, g, strict) ==
    LET ep == IF ep_arg = NoneTS THEN self.time_support ELSE ep_arg
        r == jitvaluefrom(self.index, data.index,
                          Pad(data.values, Len(data.index), g), ep)
    IN Ret(self, data,
           Tsd_init("Tsd", r[1], Fresh(r[2]), IntervalSet(r[3], r[4]),
                    0, FALSE))

\* Tsd.value_from and TsdFrame.value_from (the same body)
value_from(self, data, ep_arg, g, strict) ==
    LET ep == IF ep_arg = NoneTS THEN data.time_support ELSE ep_arg IN
    IF ep_arg = NotAnIntervalSet
    THEN Ret(self, data, Raise("AttributeError"))
    ELSE IF strict /\ Len(data.values) # Len(data.index)
    THEN Ret(self, data, Raise("IndexError"))
    ELSE LET r == jitvaluefrom(self.index, data.index,
                               Pad(data.values, Len(data.index), g), ep)
         IN IF data.cls = "TsdFrame"
            THEN Ret(self, data,
                     TsdFrame_init(r[1], Fresh(r[2]), IntervalSet(r[3], r[4]),
                                   data.columns, 0, FALSE))
            ELSE Ret(self, data,
                     Tsd_init("Tsd", r[1], Fresh(r[2]),
                              IntervalSet(r[3], r[4]), 0, FALSE))

\* ---------------------------------------------------------- interpolate
\* Tsd.interpolate: ts.restrict(ep).index is a numpy array, which has no
\* attribute values, so line 791 raises
Tsd_interpolate(self, ts, ep_arg, g, strict) ==
    LET ep == IF ep_arg \in {NoneTS, NotAnIntervalSet}
              THEN self.time_support ELSE ep_arg
        r == IF ts.cls = "TsdFrame"
             THEN TsdFrame_restrict(ts, ep, g, strict)
             ELSE Tsd_restrict(ts, ep, g, strict)
    IN IF r.out.raised THEN Ret(self, ts, r.out)
       ELSE Ret(self, ts, Raise("AttributeError"))

\* a method the class of the receiver does not have
no_method(self) == Ret(self, NoObj, Raise("AttributeError"))

\* --------------------------------------------------------- correlograms
\* process/correlograms.py.  Lags and bin edges are multiples of half a
\* tick (w = (nbins / 2) * binsize), so the cursor compares twice the
\* timestamps with twice the bounds.  A float is a fraction as Div builds
\* it; FDiv is the float division of two such values that are not negative
MaxW == 2
MaxUnits == 2

Nan == <<0, 0>>
Inf == <<1, 0>>

FDiv(a, r) ==
    IF a = Nan \/ r = Nan THEN Nan
    ELSE IF r = Inf THEN (IF a = Inf THEN Nan ELSE Zero)
    ELSE IF r = Zero THEN (IF a = Zero THEN Nan ELSE Inf)
    ELSE IF a = Inf THEN Inf
    ELSE Div(a[1] * r[2], a[2] * r[1])

\* the number n / 2 as a fraction
Half(n) == IF n % 2 = 0 THEN <<n \div 2, 1>> ELSE <<n, 2>>

\* (windowsize * 2) // binsize on floats: when binsize divides
\* windowsize * 2 the float quotient is that multiple or, for values the
\* floats do not hold exactly, one less ((0.3 * 2) // 0.1 is 5.0); below
\* tells which
floordiv(a, b, below) ==
    IF a % b = 0 /\ below THEN a \div b - 1 ELSE a \div b

\* lines 97-99
NBinsOf(binsize, windowsize, below) ==
    LET nbins == floordiv(windowsize * 2, binsize, below)
    IN IF nbins % 2 = 0 THEN nbins + 1 ELSE nbins

\* while i < nt2 and t2[i] < bound: i = i + 1 (lines 107-108, 117-119);
\* i counts from 0, bound2 is twice the bound
RECURSIVE cc_forward(_, _, _)
cc_forward(t2, i, bound2) ==
    IF i < Len(t2) /\ 2 * t2[i + 1] < bound2
    THEN cc_forward(t2, i + 1, bound2) ELSE i

\* while i2 > 0 and t2[i2 - 1] > lbound: i2 = i2 - 1 (lines 109-110)
RECURSIVE cc_backward(_, _, _)
cc_backward(t2, i, bound2) ==
    IF i > 0 /\ 2 * t2[i] > bound2
    THEN cc_backward(t2, i - 1, bound2) ELSE i

\* the loop over the bins (lines 114-121): the counts k of the n bins that
\* follow rbound
RECURSIVE cc_bins(_, _, _, _, _)
cc_bins(t2, leftb, rbound2, binsize, n) ==
    IF n = 0 THEN <<>>
    ELSE LET r == rbound2 + 2 * binsize
             l == cc_forward(t2, leftb, r)
         IN <<l - leftb>> \o cc_bins(t2, l, r, binsize, n - 1)

\* the loop over t1 (lines 105-121) from i1 on, i2 and C as they stand
RECURSIVE cc_refs(_, _, _, _, _, _, _)
cc_refs(t1, t2, i1, i2, binsize, nbins, C) ==
    IF i1 > Len(t1) THEN C
    ELSE LET lbound2 == 2 * t1[i1] - nbins * binsize
             i == cc_backward(t2, cc_forward(t2, i2, lbound2), lbound2)
             k == cc_bins(t2, i, lbound2, binsize, nbins)
         IN cc_refs(t1, t2, i1 + 1, i, binsize, nbins,
                    [j \in 1..nbins |-> C[j] + k[j]])

\* _cross_correlogram without line 123: C holds the counts
cross_correlogram_counts(t1, t2, binsize, windowsize, below) ==
    LET nbins == NBinsOf(binsize, windowsize, below)
    IN [C |-> LET c == cc_refs(t1, t2, 1, 0, binsize, nbins,
                               [j \in 1..nbins |-> 0])
              IN [j \in 1..nbins |-> Div(c[j], 1)],
        B |-> [j \in 1..nbins |-> Half(binsize * (2 * j - 1 - nbins))]]

\* _cross_correlogram: C / (nt1 * binsize) is nan for nt1 = 0, B[j] is
\* -w + binsize / 2 + j * binsize (j from 0)
cross_correlogram(t1, t2, binsize, windowsize, below) ==
    LET nbins == NBinsOf(binsize, windowsize, below)
        c == cc_refs(t1, t2, 1, 0, binsize, nbins, [j \in 1..nbins |-> 0])
    IN [C |-> [j \in 1..nbins |-> Div(c[j], Len(t1) * binsize)],
        B |-> [j \in 1..nbins |-> Half(binsize * (2 * j - 1 - nbins))]]

\* TsGroup.get_info("rate"): the number of timestamps of a unit over the
\* duration of the time support of the group
TsGroup_rate(group, support, n) ==
    Div(Len(group[n]), TotalDuration(support))

\* compute_autocorrelogram that leaves the bin of lag 0 as computed
compute_autocorrelogram_keeps_lag0(group, support, binsize, windowsize, norm, time_units, below) ==
    LET b == format_timestamps(binsize, time_units)
        w == format_timestamps(windowsize, time_units)
        cc(n) == cross_correlogram(group[n], group[n], b, w, below)
    IN [index |-> IF group = <<>> THEN <<>> ELSE cc(1).B,
        cols |-> [n \in DOMAIN group |->
                    [j \in DOMAIN cc(n).C |->
                       IF norm
                       THEN FDiv(cc(n).C[j], TsGroup_rate(group, support, n))
                       ELSE cc(n).C[j]]]]

\* compute_autocorrelogram with ep=None: a group is the sequence of the
\* index arrays of its units; the result is the index of the frame and one
\* column per unit
compute_autocorrelogram(group, support, binsize, windowsize, norm, time_units, below) ==
    LET b == format_timestamps(binsize, time_units)
        w == format_timestamps(windowsize, time_units)
        cc(n) == cross_correlogram(group[n], group[n], b, w, below)
        index == IF group = <<>> THEN <<>> ELSE cc(1).B
    IN [index |-> index,
        cols |-> [n \in DOMAIN group |->
                    [j \in DOMAIN cc(n).C |->
                       IF \E j0 \in DOMAIN index : index[j0] = Zero
                       THEN IF index[j] = Zero THEN Zero
                            ELSE IF norm
                            THEN FDiv(cc(n).C[j],
                                      TsGroup_rate(group, support, n))
                            ELSE cc(n).C[j]
                       ELSE IF norm
                       THEN FDiv(cc(n).C[j], TsGroup_rate(group, support, n))
                       ELSE cc(n).C[j]]]]

\* ----------------------------------------------------------- to_tsgroup
\* a TsGroup as Tsd.to_tsgroup builds it: its keys, the index and the
\* time_support of the member of each key, and its time_support
GroupOf(keys, members, time_support) ==
    [raised |-> FALSE, cls |-> "TsGroup", keys |-> keys,
     members |-> members, time_support |-> time_support]

\* t[d == k]
Where(t, d, k) ==
    LET ix == SetToSortedSeq({i \in DOMAIN t : d[i] = k})
    IN [j \in DOMAIN ix |-> t[ix[j]]]

\* Tsd.to_tsgroup that gives member k the timestamps of the values up to k
Tsd_to_tsgroup_up_to(self) ==
    LET t == self.index
        d == self.values
        idx == SetToSortedSeq(Range(d))
    IN
    IF idx # <<>> /\ Len(d) # Len(t)
    THEN Ret(self, NoObj, Raise("IndexError"))
    ELSE
    Ret(self, NoObj,
        GroupOf(idx,
                [j \in DOMAIN idx |->
                   LET tk == SetToSortedSeq({t[i] : i \in
                                {i \in DOMAIN t : d[i] <= idx[j]}})
                       ts == Ts_init(tk, self.time_support,
                                     [i \in DOMAIN tk |-> 0], 0, FALSE)
                   IN [index |-> ts.index,
                       time_support |-> ts.time_support]],
                self.time_support))

\* Tsd.to_tsgroup (lines 642-691): d of integers, so astype("int") leaves
\* it as it is; a boolean mask d == k as an index of t raises IndexError
\* when d and t differ in length
Tsd_to_tsgroup(self) ==
    LET t == self.index
        d == self.values
        idx == SetToSortedSeq(Range(d))
    IN
    IF idx # <<>> /\ Len(d) # Len(t)
    THEN Ret(self, NoObj, Raise("IndexError"))
    ELSE
    Ret(self, NoObj,
        GroupOf(idx,
                [j \in DOMAIN idx |->
                   LET tk == Where(t, d, idx[j])
                       ts == Ts_init(tk, self.time_support,
                                     [i \in DOMAIN tk |-> 0], 0, FALSE)
                   IN [index |-> ts.index,
                       time_support |-> ts.time_support]],
                self.time_support))

\* ------------------------------------------------------------ perievent
\* a series as compute_perievent reads it: its class, index and values
Series(cls, index, values) == [cls |-> cls, index |-> index, values |-> values]

\* np.searchsorted(a, v): the number of elements of the sorted a below v
searchsorted(a, v) == Cardinality({i \in DOMAIN a : a[i] < v})

\* what compute_perievent yields: an exception or the group of _align_tsd
PeriError(err) ==
    [raised |-> TRUE, cls |-> err, keys |-> <<>>, members |-> <<>>,
     time_support |-> EmptySet, ref_times |-> <<>>]

\* process/perievent.py _align_tsd (lines 13-52); the members are built by
\* the constructors Ts and Tsd
align_tsd(tsd, tref, window, time_support) ==
    LET lbounds == [i \in DOMAIN tref.index |->
                      searchsorted(tsd.index, tref.index[i] - window[1])]
        rbounds == [i \in DOMAIN tref.index |->
                      searchsorted(tsd.index, tref.index[i] + window[2])]
        member(i) ==
            LET n == rbounds[i] - lbounds[i]
                tmp == [j \in 1..n |->
                          tsd.index[lbounds[i] + j] - tref.index[i]]
                tmp2 == [j \in 1..n |-> tsd.values[lbounds[i] + j]]
                m == IF tsd.cls = "Ts"
                     THEN Ts_init(tmp, time_support, tmp, 0, FALSE)
                     ELSE Tsd_init("Tsd", tmp, Fresh(tmp2), time_support,
                                   0, FALSE)
            IN [cls |-> m.cls, index |-> m.index, values |-> m.values,
                time_support |-> m.time_support]
    IN [raised |-> FALSE, cls |-> "TsGroup",
        keys |-> [i \in DOMAIN tref.index |-> i - 1],
        members |-> [i \in DOMAIN tref.index |-> member(i)],
        time_support |-> time_support, ref_times |-> tref.index]

\* compute_perievent (lines 55-106) for data a Ts or Tsd; minmax is <<m>>
\* for a number m and <<a, b>> for a tuple
compute_perievent(data, tref, minmax) ==
    IF tref.cls \notin {"Ts", "Tsd"} THEN PeriError("RuntimeError")
    ELSE LET mm == IF Len(minmax) = 1 THEN <<minmax[1], minmax[1]>>
                   ELSE minmax
             window == <<Abs(format_timestamps(mm[1], "s")),
                         Abs(format_timestamps(mm[2], "s"))>>
             time_support == IntervalSet(<<0 - window[1]>>, <<window[2]>>)
         IN IF data.cls \in {"Ts", "Tsd"}
            THEN align_tsd(data, tref, window, time_support)
            ELSE PeriError("RuntimeError")

\* ------------------------------------------------------------- metadata
\* core/metadata_class.py.  An object with metadata is its class, the
\* length n of its metadata index, len(self), and the columns of
\* self._metadata in their order, each a pair <<name, content>>.
\* A column name is a string, the sequence of its characters, or a key
\* that is no string.
MaxName == 2
MaxCalls == 2

Chars == {"a", "1", "_", "-"}

Strings == UNION {[1..n -> Chars] : n \in 0..MaxName}

StrKey(chars) == [str |-> TRUE, chars |-> chars]
NonStrKey == [str |-> FALSE, chars |-> <<>>]

\* str.isalpha and str.isalnum of one character
isalpha(c) == c = "a"
isalnum(c) == c \in {"a", "1"}

\* the attributes of the objects (one, "aa") and the column labels of a
\* TsdFrame (one, "a1")
Attributes == {<<"a", "a">>}

MetaClasses == {"TsGroup", "TsdFrame"}

ColumnLabels(self) == IF self.cls = "TsdFrame" THEN {<<"a", "1">>} ELSE {}

MetaObject(cls, n, len, cols, calls) ==
    [cls |-> cls, n |-> n, len |-> len, cols |-> cols, calls |-> calls]

metadata_columns(self) == {self.cols[i][1] : i \in DOMAIN self.cols}

\* hasattr(self, name): an attribute, or a metadata column through
\* __getattr__ (lines 58-88)
hasattr(self, name) ==
    name.chars \in Attributes \/ name \in metadata_columns(self)

\* name.replace("_", "")
RECURSIVE replace_underscores(_)
replace_underscores(chars) ==
    IF chars = <<>> THEN <<>>
    ELSE IF Head(chars) = "_" THEN replace_underscores(Tail(chars))
    ELSE <<Head(chars)>> \o replace_underscores(Tail(chars))

\* _raise_invalid_metadata_column_name (lines 113-139): the exception it
\* raises, "none" when it returns; name[0] of the empty string raises
\* IndexError
raise_invalid_metadata_column_name(self, name) ==
    IF ~name.str THEN "TypeError"
    ELSE IF hasattr(self, name) /\ name \notin metadata_columns(self)
    THEN "ValueError"
    ELSE IF name.chars \in ColumnLabels(self) THEN "ValueError"
    ELSE IF name.chars = <<>> THEN "IndexError"
    ELSE IF ~isalpha(name.chars[1]) THEN "ValueError"
    ELSE IF LET r == replace_underscores(name.chars)
            IN r = <<>> \/ \E i \in DOMAIN r : ~isalnum(r[i])
    THEN "ValueError"
    ELSE "none"

\* the values of a column as a caller passes them: a pandas.Series whose
\* index equals the metadata index or not, a list of len elements, a value
\* that is not iterable, or a str; v is the content
SeriesVal(match, v) == [kind |-> "Series", match |-> match, len |-> 0, v |-> v]
ListVal(len, v) == [kind |-> "list", match |-> FALSE, len |-> len, v |-> v]
ScalarVal(v) == [kind |-> "scalar", match |-> FALSE, len |-> 0, v |-> v]
StrVal(v) == [kind |-> "str", match |-> FALSE, len |-> 0, v |-> v]

\* the metadata argument: None, a DataFrame (its columns, and whether its
\* index equals the metadata index), a dict of values, a Series of one
\* content per key, a list, or an object of another class
NoMetadata == [kind |-> "None"]
DataFrameArg(match, columns) ==
    [kind |-> "DataFrame", match |-> match, columns |-> columns]
DictArg(pairs) == [kind |-> "dict", pairs |-> pairs]
SeriesArg(entries) == [kind |-> "Series", entries |-> entries]
ListArg == [kind |-> "list"]
OtherArg == [kind |-> "other"]

\* self._metadata[name] = content, and {**metadata, **kwargs}: a new key
\* comes last, a known key keeps its place
MetaStore(cols, name, content) ==
    IF \E i \in DOMAIN cols : cols[i][1] = name
    THEN [i \in DOMAIN cols |->
            IF cols[i][1] = name THEN <<name, content>> ELSE cols[i]]
    ELSE Append(cols, <<name, content>>)

RECURSIVE MetaStoreAll(_, _)
MetaStoreAll(cols, pairs) ==
    IF pairs = <<>> THEN cols
    ELSE MetaStoreAll(MetaStore(cols, pairs[1][1], pairs[1][2]), Tail(pairs))

\* what set_info leaves: whether it raised, the exception, self._metadata
SetInfoResult(raised, err, cols) ==
    [raised |-> raised, err |-> err, cols |-> cols]

\* the loop over kwargs (lines 240-266) and the final check of not_set
\* (lines 267-271)
RECURSIVE set_info_kwargs(_, _, _, _)
set_info_kwargs(self, cols, kwargs, not_set) ==
    IF kwargs = <<>>
    THEN SetInfoResult(not_set, IF not_set THEN "TypeError" ELSE "none", cols)
    ELSE LET k == kwargs[1][1]
             v == kwargs[1][2]
         IN
         IF v.kind = "Series"
         THEN IF v.match
              THEN set_info_kwargs(self, MetaStore(cols, k, v.v),
                                   Tail(kwargs), not_set)
              ELSE SetInfoResult(TRUE, "ValueError", cols)
         ELSE IF v.kind = "list"
         THEN IF v.len = self.n
              THEN set_info_kwargs(self, MetaStore(cols, k, v.v),
                                   Tail(kwargs), not_set)
              ELSE SetInfoResult(TRUE, "ValueError", cols)
         ELSE IF v.kind = "scalar" /\ self.n = 1
         THEN set_info_kwargs(self, MetaStore(cols, k, v.v), Tail(kwargs),
                              not_set)
         ELSE set_info_kwargs(self, cols, Tail(kwargs), TRUE)

\* the names _check_metadata_column_names checks, in its order (lines
\* 141-159)
CheckedNames(self, metadata, kwargs) ==
    (IF metadata.kind = "DataFrame"
     THEN [i \in DOMAIN metadata.columns |-> metadata.columns[i][1]]
     ELSE IF metadata.kind = "dict"
     THEN [i \in DOMAIN metadata.pairs |-> metadata.pairs[i][1]]
     ELSE IF metadata.kind = "Series" /\ self.len = 1
     THEN [i \in DOMAIN metadata.entries |-> metadata.entries[i][1]]
     ELSE <<>>)
       \o [i \in DOMAIN kwargs |-> kwargs[i][1]]

\* _MetadataBase.set_info (lines 161-271): the names are checked, then the
\* metadata argument and the keyword arguments are stored one after the
\* other until one raises
set_info(self, metadata, kwargs) ==
    LET names == CheckedNames(self, metadata, kwargs)
        bad == {i \in DOMAIN names :
                  raise_invalid_metadata_column_name(self, names[i])
                     # "none"}
    IN
    IF bad # {}
    THEN SetInfoResult(TRUE,
            raise_invalid_metadata_column_name(self, names[Min(bad)]),
            self.cols)
    ELSE IF metadata.kind = "DataFrame"
    THEN IF metadata.match
         THEN set_info_kwargs(self,
                 MetaStoreAll(self.cols, metadata.columns), kwargs, FALSE)
         ELSE SetInfoResult(TRUE, "ValueError", self.cols)
    ELSE IF metadata.kind = "dict"
    THEN set_info_kwargs(self, self.cols,
                         MetaStoreAll(metadata.pairs, kwargs), FALSE)
    ELSE IF metadata.kind = "Series" /\ self.len = 1
    THEN set_info_kwargs(self, MetaStoreAll(self.cols, metadata.entries),
                         kwargs, FALSE)
    ELSE IF metadata.kind \in {"Series", "list"}
    THEN SetInfoResult(TRUE, "RuntimeError", self.cols)
    ELSE set_info_kwargs(self, self.cols, kwargs, metadata.kind # "None")

\* ------------------------------------- calls of the correlogram functions
\* The values a caller passes, each with its class.  A parameter the caller
\* does not pass is Omitted.
Omitted == [cls |-> "omitted"]
NoneArg == [cls |-> "NoneType"]
Num(v) == [cls |-> "Number", num |-> v]
Bool(v) == [cls |-> "bool", bool |-> v]
Str(v) == [cls |-> "str", str |-> v]
IntervalSetArg(ep) == [cls |-> "IntervalSet", ep |-> ep]
\* a TsGroup: the index arrays of its units, keyed 1..n, and its support
TsGroup(units, support) ==
    [cls |-> "TsGroup", v |-> units, support |-> support]
TsArg(index, support) ==
    [cls |-> "Ts", index |-> index, support |-> support]
TupleOf(items) == [cls |-> "tuple", items |-> items]
ListOf(items) == [cls |-> "list", items |-> items]

\* isinstance(x, classes): bool is a subclass of int, a Number; Ts is a
\* subclass of Tsd
isinstance(x, classes) ==
    \/ x.cls \in classes
    \/ x.cls = "bool" /\ "Number" \in classes
    \/ x.cls = "Ts" /\ "Tsd" \in classes

Functions ==
    {"compute_autocorrelogram", "compute_crosscorrelogram",
     "compute_eventcorrelogram"}

\* the parameters of each function (lines 134-136, 203-205, 304-306)
Signature(func) ==
    {"group", "binsize", "windowsize", "ep", "norm", "time_units"}
       \cup (IF func = "compute_crosscorrelogram" THEN {"reverse"} ELSE {})
       \cup (IF func = "compute_eventcorrelogram" THEN {"event"} ELSE {})

\* the parameters without a default value, in the order of the signature
Required(func) ==
    IF func = "compute_eventcorrelogram"
    THEN <<"group", "event", "binsize", "windowsize">>
    ELSE <<"group", "binsize", "windowsize">>

\* parameters_type, in the order of the dict (lines 42-50)
parameters_type ==
    << <<"binsize", {"Number"}>>, <<"windowsize", {"Number"}>>,
       <<"ep", {"IntervalSet"}>>, <<"norm", {"bool"}>>,
       <<"time_units", {"str"}>>, <<"reverse", {"bool"}>>,
       <<"event", {"Ts", "Tsd"}>> >>

\* what a call yields: an exception (err, and the parameter its message
\* names) or a DataFrame (index, column labels, columns)
CallError(err, param) ==
    [raised |-> TRUE, err |-> err, param |-> param, index |-> <<>>,
     labels |-> <<>>, cols |-> <<>>]

Frame(index, labels, cols) ==
    [raised |-> FALSE, err |-> "none", param |-> "none", index |-> index,
     labels |-> labels, cols |-> cols]

\* the checks of the wrapper; Frame(<<>>, <<>>, <<>>) when they pass
validate_correlograms_inputs(func, kwargs) ==
    LET group == kwargs.group
        bad == {i \in DOMAIN parameters_type :
                  /\ kwargs[parameters_type[i][1]].cls # "omitted"
                  /\ ~isinstance(kwargs[parameters_type[i][1]],
                                 parameters_type[i][2])}
        rest == IF bad # {}
                THEN CallError("TypeError", parameters_type[Min(bad)][1])
                ELSE Frame(<<>>, <<>>, <<>>)
    IN
    IF group.cls = "omitted" THEN CallError("KeyError", "group")
    ELSE IF func = "compute_crosscorrelogram"
            /\ group.cls \in {"tuple", "list"}
    THEN IF (\E i \in DOMAIN group.items : group.items[i].cls # "TsGroup")
            \/ Len(group.items) # 2
         THEN CallError("TypeError", "group")
         ELSE rest
    ELSE IF group.cls # "TsGroup" THEN CallError("TypeError", "group")
    ELSE rest

\* the value of a numeric argument: np.array([x], dtype=np.float64)
NumVal(x) == IF x.cls = "bool" THEN (IF x.bool THEN 1 ELSE 0) ELSE x.num

\* the value a parameter has in the body: the default when omitted
BoolOr(x, default) == IF x.cls = "omitted" THEN default ELSE x.bool

StrOr(x, default) == IF x.cls = "omitted" THEN default ELSE x.str

\* TsGroup.restrict(ep): every unit restricted to ep, ep the new support
TsGroup_restrict(group, ep) ==
    TsGroup([n \in DOMAIN group.v |->
               jitrestrict(group.v[n], group.v[n], ep, 0)[1]], ep)

\* itertools.product of two lists and itertools.combinations(s, 2)
product(a, b) ==
    [k \in 1..(Len(a) * Len(b)) |->
       <<a[((k - 1) \div Len(b)) + 1], b[((k - 1) % Len(b)) + 1]>>]

RECURSIVE combinations(_)
combinations(s) ==
    IF Len(s) < 2 THEN <<>>
    ELSE [k \in 1..(Len(s) - 1) |-> <<s[1], s[k + 1]>>]
            \o combinations(Tail(s))

TsGroup_keys(group) == [n \in DOMAIN group.v |-> n]

\* one column: the correlogram of target against reference, over the rate
\* of unit n of rategroup when norm
CorrColumn(reference, target, b, w, norm, rategroup, n, below) ==
    LET cc == cross_correlogram(reference, target, b, w, below) IN
    [j \in DOMAIN cc.C |->
       IF norm
       THEN FDiv(cc.C[j], TsGroup_rate(rategroup.v, rategroup.support, n))
       ELSE cc.C[j]]

\* the index of a frame of correlograms: no rows when it has no column
FrameIndex(labels, b, w, below) ==
    IF labels = <<>> THEN <<>>
    ELSE cross_correlogram(<<>>, <<>>, b, w, below).B

\* the body of compute_autocorrelogram (lines 171-199)
autocorrelogram_body(kwargs, below) ==
    LET newgroup == IF kwargs.ep.cls = "IntervalSet"
                    THEN TsGroup_restrict(kwargs.group, kwargs.ep.ep)
                    ELSE kwargs.group
        r == compute_autocorrelogram(
                newgroup.v, newgroup.support, NumVal(kwargs.binsize),
                NumVal(kwargs.windowsize), BoolOr(kwargs.norm, TRUE),
                StrOr(kwargs.time_units, "s"), below)
    IN Frame(r.index, [n \in DOMAIN newgroup.v |-> <<n>>], r.cols)

\* compute_crosscorrelogram that divides each column by the rate of its
\* reference
crosscorrelogram_body_reference_rate(kwargs, below) ==
    LET group == kwargs.group
        b == format_timestamps(NumVal(kwargs.binsize),
                               StrOr(kwargs.time_units, "s"))
        w == format_timestamps(NumVal(kwargs.windowsize),
                               StrOr(kwargs.time_units, "s"))
        norm == BoolOr(kwargs.norm, TRUE)
    IN
    IF group.cls = "tuple"
    THEN LET ng == [i \in 1..2 |->
                      IF kwargs.ep.cls = "IntervalSet"
                      THEN TsGroup_restrict(group.items[i], kwargs.ep.ep)
                      ELSE group.items[i]]
             pairs == product(TsGroup_keys(ng[1]), TsGroup_keys(ng[2]))
         IN Frame(FrameIndex(pairs, b, w, below), pairs,
                  [k \in DOMAIN pairs |->
                     CorrColumn(ng[1].v[pairs[k][1]], ng[2].v[pairs[k][2]],
                                b, w, norm, ng[1], pairs[k][1], below)])
    ELSE IF group.cls # "TsGroup" THEN CallError("AttributeError", "group")
    ELSE LET newgroup == IF kwargs.ep.cls = "IntervalSet"
                         THEN TsGroup_restrict(group, kwargs.ep.ep)
                         ELSE group
             c == combinations(TsGroup_keys(newgroup))
             pairs == IF BoolOr(kwargs.reverse, FALSE)
                      THEN [k \in DOMAIN c |-> <<c[k][2], c[k][1]>>]
                      ELSE c
         IN Frame(FrameIndex(pairs, b, w, below), pairs,
                  [k \in DOMAIN pairs |->
                     CorrColumn(newgroup.v[pairs[k][1]],
                                newgroup.v[pairs[k][2]], b, w, norm,
                                newgroup, pairs[k][1], below)])

\* the body of compute_crosscorrelogram (lines 249-300)
crosscorrelogram_body(kwargs, below) ==
    LET group == kwargs.group
        b == format_timestamps(NumVal(kwargs.binsize),
                               StrOr(kwargs.time_units, "s"))
        w == format_timestamps(NumVal(kwargs.windowsize),
                               StrOr(kwargs.time_units, "s"))
        norm == BoolOr(kwargs.norm, TRUE)
    IN
    IF group.cls = "tuple"
    THEN LET ng == [i \in 1..2 |->
                      IF kwargs.ep.cls = "IntervalSet"
                      THEN TsGroup_restrict(group.items[i], kwargs.ep.ep)
                      ELSE group.items[i]]
             pairs == product(TsGroup_keys(ng[1]), TsGroup_keys(ng[2]))
         IN Frame(FrameIndex(pairs, b, w, below), pairs,
                  [k \in DOMAIN pairs |->
                     CorrColumn(ng[1].v[pairs[k][1]], ng[2].v[pairs[k][2]],
                                b, w, norm, ng[2], pairs[k][2], below)])
    \* a list has neither restrict (line 277) nor keys (line 280)
    ELSE IF group.cls # "TsGroup" THEN CallError("AttributeError", "group")
    ELSE LET newgroup == IF kwargs.ep.cls = "IntervalSet"
                         THEN TsGroup_restrict(group, kwargs.ep.ep)
                         ELSE group
             c == combinations(TsGroup_keys(newgroup))
             pairs == IF BoolOr(kwargs.reverse, FALSE)
                      THEN [k \in DOMAIN c |-> <<c[k][2], c[k][1]>>]
                      ELSE c
         IN Frame(FrameIndex(pairs, b, w, below), pairs,
                  [k \in DOMAIN pairs |->
                     CorrColumn(newgroup.v[pairs[k][1]],
                                newgroup.v[pairs[k][2]], b, w, norm,
                                newgroup, pairs[k][2], below)])

\* the body of compute_eventcorrelogram (lines 344-371)
eventcorrelogram_body(kwargs, below) ==
    LET event == kwargs.event
        none == kwargs.ep.cls \in {"omitted", "NoneType"}
        ep == IF none THEN event.support ELSE kwargs.ep.ep
        tsd1 == IF none THEN event.index
                ELSE jitrestrict(event.index, event.index, ep, 0)[1]
        newgroup == TsGroup_restrict(kwargs.group, ep)
        b == format_timestamps(NumVal(kwargs.binsize),
                               StrOr(kwargs.time_units, "s"))
        w == format_timestamps(NumVal(kwargs.windowsize),
                               StrOr(kwargs.time_units, "s"))
        labels == [n \in DOMAIN newgroup.v |-> <<n>>]
    IN Frame(FrameIndex(labels, b, w, below), labels,
             [n \in DOMAIN newgroup.v |->
                CorrColumn(tsd1, newgroup.v[n], b, w,
                           BoolOr(kwargs.norm, TRUE), newgroup, n, below)])

\* a parameter without default that the caller did not pass
Missing(func, kwargs) ==
    {i \in DOMAIN Required(func) : kwargs[Required(func)[i]].cls = "omitted"}

\* a decorated function called with kwargs (lines 17-61): the checks, then
\* func(**kwargs)
wrapper(func, kwargs, below) ==
    LET checked == validate_correlograms_inputs(func, kwargs) IN
    IF checked.raised THEN checked
    ELSE IF Missing(func, kwargs) # {}
    THEN CallError("TypeError", Required(func)[Min(Missing(func, kwargs))])
    ELSE IF func = "compute_autocorrelogram"
    THEN autocorrelogram_body(kwargs, below)
    ELSE IF func = "compute_crosscorrelogram"
    THEN crosscorrelogram_body(kwargs, below)
    ELSE eventcorrelogram_body(kwargs, below)

\* ------------------------------------------------------------ the heap
\* a container as the heap holds it: its values are in bufs
Strip(c) ==
    [cls |-> c.cls, index |-> c.index, view |-> c.view,
     time_support |-> c.time_support, rate |-> c.rate,
     columns |-> c.columns, ndim |-> c.ndim]

ViewVal(b, v) ==
    IF v.buf = 0 THEN <<>> ELSE SubSeq(b[v.buf], v.off + 1, v.off + v.len)

\* the container of slot i with its values read through its view
Snap(o, b, i) ==
    [raised |-> FALSE, cls |-> o[i].cls, index |-> o[i].index,
     values |-> ViewVal(b, o[i].view), view |-> o[i].view,
     time_support |-> o[i].time_support, rate |-> o[i].rate,
     columns |-> o[i].columns, ndim |-> o[i].ndim]

IsContainer(c) == c.cls \in Classes

Live(o, held) == ({o[i].view.buf : i \in Slots} \cup {held.buf}) \ {0}

\* buffers nothing refers to any more are collected
GC(o, b, held) == [i \in BufIds |-> IF i \in Live(o, held) THEN b[i] ELSE <<>>]

WriteView(b, v, val) ==
    IF v.buf = 0 THEN b
    ELSE [b EXCEPT ![v.buf] =
            [j \in DOMAIN @ |->
               IF j > v.off /\ (j - v.off) \in DOMAIN val
               THEN val[j - v.off] ELSE @[j]]]

\* bind the returned value out to the variable dst (dst = 0: to nothing)
Store(o, b, held, dst, out) ==
    IF dst = 0 THEN [objs |-> o, bufs |-> GC(o, b, held)]
    ELSE IF ~IsContainer(out)
    THEN LET o2 == [o EXCEPT ![dst] = Strip(NoObj)]
         IN [objs |-> o2, bufs |-> GC(o2, b, held)]
    ELSE IF out.view = NoView
    THEN LET nb == Min(BufIds \ Live([o EXCEPT ![dst] = Strip(NoObj)], held))
             o2 == [o EXCEPT ![dst] =
                      Strip([out EXCEPT !.view =
                         [buf |-> nb, off |-> 0, len |-> Len(out.values)]])]
         IN [objs |-> o2, bufs |-> GC(o2, [b EXCEPT ![nb] = out.values], held)]
    ELSE LET o2 == [o EXCEPT ![dst] = Strip(out)]
         IN [objs |-> o2, bufs |-> GC(o2, b, held)]

NoInfo ==
    [ep |-> NoneTS, key |-> <<"none", 0, 0>>, t |-> <<>>, d |-> <<>>,
     n |-> 0, m |-> "none", kw |-> FALSE]

\* the record of the last call.  Always: the operation, the slots of the
\* receiver, of the container argument and of the result, whether it
\* raised, whether it left the receiver and the argument as they were
\* (unchanged), whether it left the other containers and the caller's array
\* as they were (frame), whether what it returned is a new object (newobj).
\* With detail: the receiver and the argument before the call (x, y) and as
\* the call left them (self, data), the returned value and the inputs.
Last(op, recv, arg, dst, flags, x, y, self, data, out, info, detail) ==
    [op |-> op, recv |-> recv, arg |-> arg, dst |-> dst,
     raised |-> out.raised, unchanged |-> flags[1], frame |-> flags[2],
     newobj |-> flags[3],
     x |-> IF detail THEN x ELSE NoObj,
     y |-> IF detail THEN y ELSE NoObj,
     self |-> IF detail THEN self ELSE NoObj,
     data |-> IF detail THEN data ELSE NoObj,
     out |-> IF detail THEN out ELSE NoObj,
     info |-> IF detail THEN info ELSE NoInfo]

\* a method call dst = objs[recv].op(objs[arg], ...) whose outcome is r
Call(op, recv, arg, dst, r, info, detail) ==
    LET o1 == [i \in Slots |->
                 IF i = recv THEN Strip(r.self)
                 ELSE IF i = arg THEN Strip(r.arg) ELSE objs[i]]
        b1 == WriteView(bufs, r.self.view, r.self.values)
        b2 == IF arg = 0 \/ arg = recv THEN b1
              ELSE WriteView(b1, r.arg.view, r.arg.values)
        to == IF r.out.raised THEN 0 ELSE dst
        st == Store(o1, b2, d_held, to, r.out)
        unchanged ==
            /\ Snap(o1, b2, recv) = Snap(objs, bufs, recv)
            /\ arg # 0 => Snap(o1, b2, arg) = Snap(objs, bufs, arg)
        frame ==
            /\ \A i \in Slots \ {recv, arg, to} :
                  Snap(st.objs, st.bufs, i) = Snap(objs, bufs, i)
            /\ ViewVal(st.bufs, d_held) = ViewVal(bufs, d_held)
    IN /\ objs' = st.objs
       /\ bufs' = st.bufs
       /\ UNCHANGED d_held
       /\ last' = Last(op, recv, arg, to, <<unchanged, frame, r.newobj>>,
                       Snap(objs, bufs, recv),
                       IF arg = 0 THEN NoObj ELSE Snap(objs, bufs, arg),
                       Snap(o1, b2, recv),
                       IF arg = 0 THEN NoObj ELSE Snap(o1, b2, arg),
                       r.out, info, detail)

\* ----------------------------------------------------------------- state
Init ==
    /\ objs = [i \in Slots |-> Strip(NoObj)]
    /\ bufs = [i \in BufIds |-> <<>>]
    /\ d_held = NoView
    /\ last = Last("init", 0, 0, 0, <<TRUE, TRUE, TRUE>>, NoObj, NoObj,
                   NoObj, NoObj, NoObj, NoInfo, FALSE)

\* the input arrays: timestamps in any order without duplicates, data
TimeArrays ==
    UNION {{t \in [1..n -> Times] : \A i, j \in 1..n : i # j => t[i] # t[j]} :
             n \in 0..MaxLen}

DataArrays == UNION {[1..n -> Vals] : n \in 0..MaxLen}

ColumnArgs == {<<>>, <<1>>}

\* jitrestrict on arrays of different lengths has two outcomes; on arrays
\* of the same length g and strict play no part
UbVals(mismatch) == IF mismatch THEN Vals ELSE {0}

UbStrict(mismatch) == IF mismatch THEN BOOLEAN ELSE {FALSE}

UbChoice(mismatch, g, strict) ==
    g \in UbVals(mismatch) /\ strict \in UbStrict(mismatch)

\* dst = Tsd(t, d, time_support=ts) or dst = TsdFrame(t, d, time_support=ts,
\* columns=c), d an array of the caller, who keeps it or drops it
New(cls, dst, t, d, ts, c, g, strict, keep, detail) ==
    LET idd == Min(BufIds \ Live([objs EXCEPT ![dst] = Strip(NoObj)], NoView))
        held == IF keep THEN [buf |-> idd, off |-> 0, len |-> Len(d)]
                ELSE NoView
        b0 == [bufs EXCEPT ![idd] = d]
        out == IF cls = "Tsd"
               THEN Tsd_init("Tsd", t,
                             Arr([buf |-> idd, off |-> 0, len |-> Len(d)], d),
                             ts, g, strict)
               ELSE TsdFrame_init(t,
                             Arr([buf |-> idd, off |-> 0, len |-> Len(d)], d),
                             ts, c, g, strict)
        to == IF out.raised THEN 0 ELSE dst
        st == Store(objs, b0, held, to, out)
    IN /\ UbChoice(Len(d) # Len(t) /\ ts # NoneTS, g, strict)
       /\ cls = "Tsd" => c = <<>>
       /\ objs' = st.objs
       /\ bufs' = st.bufs
       /\ d_held' = held
       /\ last' = Last("new", 0, 0, to, <<TRUE, TRUE, TRUE>>,
                       NoObj, NoObj, NoObj, NoObj, out,
                       [NoInfo EXCEPT !.t = t, !.d = d, !.ep = ts, !.m = cls],
                       detail)

\* dst = Ts(t, time_support=ts)
NewTs(dst, t, ts, garbage, detail) ==
    LET out == Ts_init(t, ts, garbage, 0, FALSE)
        st == Store(objs, bufs, d_held, dst, out)
    IN /\ objs' = st.objs
       /\ bufs' = st.bufs
       /\ UNCHANGED d_held
       /\ last' = Last("new", 0, 0, dst, <<TRUE, TRUE, TRUE>>,
                       NoObj, NoObj, NoObj, NoObj, out,
                       [NoInfo EXCEPT !.t = t, !.ep = ts, !.m = "Ts"], detail)

Receiver(i) == IsContainer(objs[i])

Mismatch(i) == Len(objs[i].index) # objs[i].view.len

\* dst = objs[recv].restrict(ep)
Restrict(recv, ep, dst, g, strict, detail) ==
    /\ Receiver(recv)
    /\ UbChoice(Mismatch(recv), g, strict)
    /\ Call("restrict", recv, 0, dst,
            IF objs[recv].cls = "TsdFrame"
            THEN TsdFrame_restrict(Snap(objs, bufs, recv), ep, g, strict)
            ELSE Tsd_restrict(Snap(objs, bufs, recv), ep, g, strict),
            [NoInfo EXCEPT !.ep = ep], detail)

\* dst = objs[recv][key]
GetItem(recv, key, dst, detail) ==
    /\ Receiver(recv)
    /\ Call("getitem", recv, 0, dst,
            IF objs[recv].cls = "TsdFrame"
            THEN TsdFrame_getitem(Snap(objs, bufs, recv), key)
            ELSE Tsd_getitem(Snap(objs, bufs, recv), key),
            [NoInfo EXCEPT !.key = key], detail)

\* objs[recv][k] = value
SetItem(recv, k, value, detail) ==
    /\ Receiver(recv)
    /\ Call("setitem", recv, 0, 0, setitem(Snap(objs, bufs, recv), k, value),
            [NoInfo EXCEPT !.key = <<"int", k, 0>>, !.n = value], detail)

\* dst = objs[recv].count(bin_size, ep)
Count(recv, bin_size, ep, dst, detail) ==
    /\ Receiver(recv)
    /\ bin_size = 0 =>
          CentersOnGrid(IF ep = NoneTS THEN objs[recv].time_support ELSE ep)
    /\ Call("count", recv, 0, dst,
            IF objs[recv].cls = "TsdFrame"
            THEN no_method(Snap(objs, bufs, recv))
            ELSE Tsd_count(Snap(objs, bufs, recv), bin_size, ep),
            [NoInfo EXCEPT !.ep = ep, !.n = bin_size], detail)

\* the ep a call works on when it is given ep
EpUsed(recv, ep) ==
    IF ep \in {NoneTS, NotAnIntervalSet} THEN objs[recv].time_support ELSE ep

\* a bin size of b seconds written in time_units
InUnits(b, time_units) ==
    IF time_units \in Units THEN b * PerSecond(time_units) ELSE b

\* dst = objs[recv].count(bin_size, ep=ep, time_units=time_units) (kw) or
\* dst = objs[recv].count(bin_size, ep, time_units), b the bin size in
\* seconds
CountArgs(recv, b, ep, time_units, kw, dst, detail) ==
    /\ Receiver(recv)
    /\ b = 0 => CentersOnGrid(EpUsed(recv, ep))
    /\ Call("count", recv, 0, dst,
            IF objs[recv].cls = "TsdFrame"
            THEN no_method(Snap(objs, bufs, recv))
            ELSE Tsd_count_args(Snap(objs, bufs, recv),
                                InUnits(b, time_units), ep, time_units, kw),
            [NoInfo EXCEPT !.ep = ep, !.n = b, !.m = time_units, !.kw = kw],
            detail)

\* dst = objs[recv].bin_average(bin_size, ep, time_units), b the bin size
\* in seconds
BinAverageUnits(recv, b, ep, time_units, dst, g, strict, detail) ==
    /\ Receiver(recv)
    /\ UbChoice(Mismatch(recv), g, strict)
    /\ BinMeansOnGrid(objs[recv].index,
                      Pad(Snap(objs, bufs, recv).values,
                          Len(objs[recv].index), g),
                      EpUsed(recv, ep), b)
    /\ Call("bin_average", recv, 0, dst,
            bin_average_units(Snap(objs, bufs, recv), InUnits(b, time_units),
                              ep, time_units, g, strict),
            [NoInfo EXCEPT !.ep = ep, !.n = b, !.m = time_units], detail)

\* dst = objs[recv].bin_average(bin_size, ep)
BinAverage(recv, bin_size, ep, dst, g, strict, detail) ==
    /\ Receiver(recv)
    /\ UbChoice(Mismatch(recv), g, strict)
    /\ BinMeansOnGrid(objs[recv].index,
                      Pad(Snap(objs, bufs, recv).values,
                          Len(objs[recv].index), g),
                      IF ep = NoneTS THEN objs[recv].time_support ELSE ep,
                      bin_size)
    /\ Call("bin_average", recv, 0, dst,
            IF objs[recv].cls = "TsdFrame"
            THEN TsdFrame_bin_average(Snap(objs, bufs, recv), bin_size, ep,
                                      g, strict)
            ELSE Tsd_bin_average(Snap(objs, bufs, recv), bin_size, ep,
                                 g, strict),
            [NoInfo EXCEPT !.ep = ep, !.n = bin_size], detail)

\* dst = objs[recv].threshold(thr, method)
Threshold(recv, thr, method, dst, g, strict, detail) ==
    /\ Receiver(recv)
    /\ UbChoice(Mismatch(recv), g, strict)
    /\ MidpointsOnGrid(objs[recv].index)
    /\ Call("threshold", recv, 0, dst,
            IF objs[recv].cls = "TsdFrame"
            THEN no_method(Snap(objs, bufs, recv))
            ELSE Tsd_threshold(Snap(objs, bufs, recv), thr, method, g, strict),
            [NoInfo EXCEPT !.n = thr, !.m = method], detail)

\* dst = objs[recv].value_from(objs[arg], ep)
ValueFrom(recv, arg, ep, dst, g, strict, detail) ==
    /\ Receiver(recv)
    /\ Receiver(arg)
    /\ UbChoice(Mismatch(arg), g, strict)
    /\ Call("value_from", recv, arg, dst,
            value_from(Snap(objs, bufs, recv), Snap(objs, bufs, arg), ep,
                       g, strict),
            [NoInfo EXCEPT !.ep = ep], detail)

\* dst = objs[recv].interpolate(objs[arg], ep)
Interpolate(recv, arg, ep, dst, g, strict, detail) ==
    /\ Receiver(recv)
    /\ Receiver(arg)
    /\ UbChoice(Mismatch(arg), g, strict)
    /\ Call("interpolate", recv, arg, dst,
            IF objs[recv].cls = "TsdFrame"
            THEN no_method(Snap(objs, bufs, recv))
            ELSE Tsd_interpolate(Snap(objs, bufs, recv),
                                 Snap(objs, bufs, arg), ep, g, strict),
            [NoInfo EXCEPT !.ep = ep], detail)

\* the arrays _cross_correlogram is given: sorted timestamps
SortedArrays ==
    UNION {{t \in [1..n -> Times] : \A i \in 1..n : i > 1 => t[i - 1] <= t[i]} :
             n \in 0..MaxLen}

\* the index arrays of the units of a group: strictly increasing
Indexes == {t \in SortedArrays : \A i \in DOMAIN t : i > 1 => t[i - 1] < t[i]}

Groups == UNION {[1..n -> Indexes] : n \in 1..MaxUnits}

\* the time supports a group can have: one interval that holds every
\* timestamp of its units
GroupSupports(group) ==
    {ep \in Eps : /\ Len(ep) = 1
                  /\ \A n \in DOMAIN group : \A i \in DOMAIN group[n] :
                        InEp(group[n][i], ep)}

CcBinSizes == 1..MaxBin
CcWindows == 1..MaxW

\* the record of a call of process/correlograms.py
CorrLast(op, t1, t2, group, support, binsize, windowsize, norm, below, r) ==
    [op |-> op, raised |-> FALSE, t1 |-> t1, t2 |-> t2, group |-> group,
     support |-> support, binsize |-> binsize, windowsize |-> windowsize,
     norm |-> norm, below |-> below, out |-> r]

\* C, B = _cross_correlogram(t1, t2, binsize, windowsize)
CrossCorrelogram(t1, t2, binsize, windowsize, below) ==
    /\ last.op = "init"
    /\ last' = CorrLast("cross_correlogram", t1, t2, <<>>, EmptySet, binsize,
                        windowsize, FALSE, below,
                        cross_correlogram(t1, t2, binsize, windowsize, below))
    /\ UNCHANGED <<objs, bufs, d_held>>

\* compute_autocorrelogram(group, binsize, windowsize, norm=norm,
\* time_units=time_units), the sizes of binsize and windowsize seconds
\* written in time_units
Autocorrelogram(group, support, binsize, windowsize, norm, time_units, below) ==
    /\ last.op = "init"
    /\ last' = CorrLast("compute_autocorrelogram", <<>>, <<>>, group, support,
                        binsize, windowsize, norm, below,
                        compute_autocorrelogram(
                           group, support, InUnits(binsize, time_units),
                           InUnits(windowsize, time_units), norm, time_units,
                           below))
    /\ UNCHANGED <<objs, bufs, d_held>>

\* objs[recv].to_tsgroup(), objs[recv] a Tsd; the caller keeps the group
\* in no variable of the model
ToTsGroup(recv) ==
    /\ Receiver(recv)
    /\ objs[recv].cls = "Tsd"
    /\ Call("to_tsgroup", recv, 0, 0, Tsd_to_tsgroup(Snap(objs, bufs, recv)),
            NoInfo, TRUE)

\* compute_perievent(data, tref, minmax)
Perievent(data, tref, minmax) ==
    /\ last.op = "init"
    /\ last' = [op |-> "compute_perievent", data |-> data, tref |-> tref,
                minmax |-> minmax,
                raised |-> compute_perievent(data, tref, minmax).raised,
                out |-> compute_perievent(data, tref, minmax)]
    /\ UNCHANGED <<objs, bufs, d_held>>

\* x = an object with metadata, of n rows of metadata, without a column
MetaNew(cls, n) ==
    /\ last.op = "init"
    /\ objs' = [objs EXCEPT ![1] = MetaObject(cls, n, n, <<>>, 0)]
    /\ last' = [op |-> "meta_new", raised |-> FALSE]
    /\ UNCHANGED <<bufs, d_held>>

\* x.set_info(metadata, **kwargs); x[key] = value and x.key = value are
\* x.set_info(**{key: value}) (lines 47-56, 90-93)
SetInfo(metadata, kwargs) ==
    LET self == objs[1]
        r == set_info(self, metadata, kwargs)
    IN /\ last.op \in {"meta_new", "set_info"}
       /\ self.calls < MaxCalls
       /\ objs' = [objs EXCEPT ![1] =
                     [self EXCEPT !.cols = r.cols, !.calls = @ + 1]]
       /\ last' = [op |-> "set_info", raised |-> r.raised, err |-> r.err,
                   self |-> self, metadata |-> metadata, kwargs |-> kwargs]
       /\ UNCHANGED <<bufs, d_held>>

\* the record of a call of a decorated function
ApiLast(func, kwargs, below, r) ==
    [op |-> "call", func |-> func, raised |-> r.raised, call |-> kwargs,
     below |-> below, out |-> r]

\* func(**kwargs): the caller passes the parameters of kwargs that are not
\* Omitted, all of them parameters of func
CorrelogramCall(func, kwargs, below) ==
    /\ last.op = "init"
    /\ \A p \in DOMAIN kwargs :
          p \notin Signature(func) => kwargs[p].cls = "omitted"
    /\ last' = ApiLast(func, kwargs, below, wrapper(func, kwargs, below))
    /\ UNCHANGED <<objs, bufs, d_held>>

\* the arguments of the calls: values of the expected class and of others
AGroup == TsGroup(<<<<0, 1>>, <<1>>>>, <<<<0, MaxT>>>>)

GroupArgs ==
    {Omitted, AGroup, TupleOf(<<AGroup, AGroup>>),
     ListOf(<<AGroup, AGroup>>), TupleOf(<<AGroup, AGroup, AGroup>>),
     TupleOf(<<AGroup, Num(1)>>), ListOf(<<Num(1)>>), Num(1)}

AnEvent == TsArg(<<0, 1>>, <<<<0, MaxT>>>>)

Kwargs(group, event, binsize, windowsize, ep, norm, time_units, reverse) ==
    [group |-> group, event |-> event, binsize |-> binsize,
     windowsize |-> windowsize, ep |-> ep, norm |-> norm,
     time_units |-> time_units, reverse |-> reverse]

\* ------------------------------------------------------- specifications
\* x = Tsd(...), x = TsdFrame(...) or x = Ts(...), from the initial state,
\* with a time_support out of supports
Construct(supports, keep, detail) ==
    /\ last.op = "init"
    /\ \/ \E cls \in {"Tsd", "TsdFrame"}, t \in TimeArrays,
             d \in DataArrays, ts \in supports :
             \E c \in IF cls = "Tsd" THEN {<<>>} ELSE ColumnArgs,
                g \in UbVals(Len(d) # Len(t) /\ ts # NoneTS),
                strict \in UbStrict(Len(d) # Len(t) /\ ts # NoneTS) :
                New(cls, 1, t, d, ts, c, g, strict, keep, detail)
       \/ \E t \in TimeArrays, ts \in supports :
             \E garbage \in [1..Len(t) -> Vals] :
                NewTs(1, t, ts, garbage, detail)

\* Every operation.  The caller builds x and then rebinds x to what an
\* operation on x returns: x = x.restrict(ep), x = x[key], x = x.count(...),
\* x = x.value_from(x, ep), ...
Next ==
    \/ Construct(Eps \cup {NoneTS}, FALSE, FALSE)
    \/ \E ep \in Eps, g \in UbVals(Mismatch(1)),
          strict \in UbStrict(Mismatch(1)) :
          Restrict(1, ep, 1, g, strict, FALSE)
    \/ \E key \in Keys : GetItem(1, key, 1, FALSE)
    \/ \E bin_size \in BinSizes \cup {0}, ep \in Eps \cup {NoneTS} :
          Count(1, bin_size, ep, 1, FALSE)
    \/ \E bin_size \in BinSizes, ep \in Eps \cup {NoneTS},
          g \in UbVals(Mismatch(1)), strict \in UbStrict(Mismatch(1)) :
          BinAverage(1, bin_size, ep, 1, g, strict, FALSE)
    \/ \E thr \in Vals, method \in MethodArgs, g \in UbVals(Mismatch(1)),
          strict \in UbStrict(Mismatch(1)) :
          Threshold(1, thr, method, 1, g, strict, FALSE)
    \/ \E ep \in Eps \cup {NoneTS}, g \in UbVals(Mismatch(1)),
          strict \in UbStrict(Mismatch(1)) :
          ValueFrom(1, 1, ep, 1, g, strict, FALSE)
    \/ \E ep \in Eps \cup {NoneTS}, g \in UbVals(Mismatch(1)),
          strict \in UbStrict(Mismatch(1)) :
          Interpolate(1, 1, ep, 1, g, strict, FALSE)

Spec == Init /\ [][Next]_vars

\* Construction and restriction, x = x.restrict(ep), recorded in detail
NextRestrict ==
    \/ Construct(Eps \cup {NoneTS}, FALSE, TRUE)
    \/ \E ep \in Eps, g \in UbVals(Mismatch(1)),
          strict \in UbStrict(Mismatch(1)) :
          Restrict(1, ep, 1, g, strict, TRUE)

SpecRestrict == Init /\ [][NextRestrict]_vars

\* Restriction of what was built.  The caller builds x without a
\* time_support (restrict does not read self.time_support), from a data
\* array as long as t, and takes y = x.restrict(ep) once
NextCommute ==
    \/ /\ last.op = "init"
       /\ \/ \E cls \in {"Tsd", "TsdFrame"}, t \in TimeArrays :
                \E d \in [1..Len(t) -> Vals],
                   c \in IF cls = "Tsd" THEN {<<>>} ELSE ColumnArgs :
                   New(cls, 1, t, d, NoneTS, c, 0, FALSE, FALSE, FALSE)
          \/ \E t \in TimeArrays :
                \E garbage \in [1..Len(t) -> Vals] :
                   NewTs(1, t, NoneTS, garbage, FALSE)
    \/ \E ep \in Eps :
          /\ ~IsContainer(objs[2])
          /\ Restrict(1, ep, 2, 0, FALSE, TRUE)

SpecCommute == Init /\ [][NextCommute]_vars

\* Items, x = x[key], recorded in detail
NextItem ==
    \/ Construct(Eps \cup {NoneTS}, FALSE, TRUE)
    \/ \E key \in Keys : GetItem(1, key, 1, TRUE)

SpecItem == Init /\ [][NextItem]_vars

\* Ownership.  The caller builds x from an array d it keeps, takes
\* y = x[key] or y = y[key], and assigns items of x and of y.  x is built
\* without a time_support or with the one that holds every timestamp
NextOwn ==
    \/ Construct({NoneTS, <<<<0, MaxT>>>>}, TRUE, FALSE)
    \/ \E recv \in Slots, key \in Keys : GetItem(recv, key, 2, FALSE)
    \/ \E recv \in Slots, k \in 0..MaxLen, value \in Vals :
          SetItem(recv, k, value, FALSE)

SpecOwn == Init /\ [][NextOwn]_vars

\* Counting, x = x.count(bin_size, ep), recorded in detail
NextCount ==
    \/ Construct(Eps \cup {NoneTS}, FALSE, FALSE)
    \/ \E bin_size \in BinSizes \cup {0}, ep \in Eps \cup {NoneTS} :
          Count(1, bin_size, ep, 1, TRUE)

SpecCount == Init /\ [][NextCount]_vars

\* Thresholding, x = x.threshold(thr, method), recorded in detail
NextThreshold ==
    \/ Construct(Eps \cup {NoneTS}, FALSE, FALSE)
    \/ \E thr \in Vals, method \in MethodArgs, g \in UbVals(Mismatch(1)),
          strict \in UbStrict(Mismatch(1)) :
          Threshold(1, thr, method, 1, g, strict, TRUE)

SpecThreshold == Init /\ [][NextThreshold]_vars

\* x = Tsd(t, d), TsdFrame(t, d) or Ts(t) bound to dst, d as long as t, no
\* time_support
Build(dst) ==
    \/ \E cls \in {"Tsd", "TsdFrame"}, t \in TimeArrays :
          \E d \in [1..Len(t) -> Vals],
             c \in IF cls = "Tsd" THEN {<<>>} ELSE ColumnArgs :
             New(cls, dst, t, d, NoneTS, c, 0, FALSE, FALSE, FALSE)
    \/ \E t \in TimeArrays :
          \E garbage \in [1..Len(t) -> Vals] :
             NewTs(dst, t, NoneTS, garbage, FALSE)

\* Alignment of one series on another.  The caller builds x and y and
\* takes x = x.value_from(y, ep) or x = x.interpolate(y, ep), once
NextAlign ==
    \/ last.op = "init" /\ Build(1)
    \/ /\ last.op = "new"
       /\ ~IsContainer(objs[2])
       /\ Build(2)
    \/ /\ last.op = "new"
       /\ IsContainer(objs[2])
       /\ \E ep \in Eps \cup {NoneTS} :
             \/ ValueFrom(1, 2, ep, 1, 0, FALSE, TRUE)
             \/ Interpolate(1, 2, ep, 1, 0, FALSE, TRUE)

SpecAlign == Init /\ [][NextAlign]_vars

\* Arguments.  The caller builds x and calls one method of x with an ep
\* that is an IntervalSet, None or neither, and a time_units that is a unit
\* or not
EpArgs == Eps \cup {NoneTS, NotAnIntervalSet}

NextArgs ==
    \/ last.op = "init" /\ Build(1)
    \/ /\ last.op = "new"
       /\ \E ep \in EpArgs : Restrict(1, ep, 1, 0, FALSE, TRUE)
    \/ /\ last.op = "new"
       /\ \E b \in BinSizes \cup {0}, ep \in EpArgs, time_units \in UnitArgs,
             kw \in BOOLEAN : CountArgs(1, b, ep, time_units, kw, 1, TRUE)
    \/ /\ last.op = "new"
       /\ \E b \in BinSizes, ep \in EpArgs, time_units \in UnitArgs :
             BinAverageUnits(1, b, ep, time_units, 1, 0, FALSE, TRUE)
    \/ /\ last.op = "new"
       /\ \E ep \in EpArgs : ValueFrom(1, 1, ep, 1, 0, FALSE, TRUE)
    \/ /\ last.op = "new"
       /\ \E ep \in EpArgs : Interpolate(1, 1, ep, 1, 0, FALSE, TRUE)

SpecArgs == Init /\ [][NextArgs]_vars

\* Correlograms of sorted arrays and of the units of a group
NextCorr ==
    \/ \E t1 \in SortedArrays, t2 \in SortedArrays, binsize \in CcBinSizes,
          windowsize \in CcWindows, below \in BOOLEAN :
          CrossCorrelogram(t1, t2, binsize, windowsize, below)
    \/ \E group \in Groups, binsize \in CcBinSizes, windowsize \in CcWindows,
          norm \in BOOLEAN, time_units \in Units, below \in BOOLEAN :
          \E support \in GroupSupports(group) :
             Autocorrelogram(group, support, binsize, windowsize, norm,
                             time_units, below)

SpecCorr == Init /\ [][NextCorr]_vars

\* Calls of the correlogram functions with arguments of every class
NextTypes ==
    /\ last.op = "init"
    /\ \E func \in Functions, group \in GroupArgs,
       binsize \in {Omitted, Num(1), Bool(TRUE), Str("a")},
       windowsize \in {Num(1), Str("a")},
       ep \in {Omitted, NoneArg, IntervalSetArg(<<<<0, 1>>>>), Str("a")},
       norm \in {Omitted, Bool(FALSE), Str("a")},
       time_units \in {Omitted, Str("s"), Num(1)}, below \in BOOLEAN :
       \E event \in IF func = "compute_eventcorrelogram"
                    THEN {Omitted, AnEvent, Num(1)} ELSE {Omitted},
          reverse \in IF func = "compute_crosscorrelogram"
                      THEN {Omitted, Bool(TRUE), Num(1)} ELSE {Omitted} :
          CorrelogramCall(func,
                          Kwargs(group, event, binsize, windowsize, ep, norm,
                                 time_units, reverse), below)

SpecTypes == Init /\ [][NextTypes]_vars

\* the groups compute_crosscorrelogram is given: a group of up to
\* MaxUnits + 1 units, or two groups of short units as a tuple or a list
WholeSupport == <<<<0, MaxT>>>>

ShortIndexes == {t \in Indexes : Len(t) <= 1}

CrossGroups ==
    {TsGroup(u, WholeSupport) :
       u \in UNION {[1..n -> Indexes] : n \in 1..(MaxUnits + 1)}}

PairGroups ==
    {TsGroup(u, WholeSupport) :
       u \in UNION {[1..n -> ShortIndexes] : n \in 1..MaxUnits}}

\* Cross-correlograms of the pairs of units of one group or of two groups
NextCross ==
    /\ last.op = "init"
    /\ \E group \in CrossGroups
                   \cup {TupleOf(<<g1, g2>>) : g1 \in PairGroups,
                                               g2 \in PairGroups}
                   \cup {ListOf(<<g1, g2>>) : g1 \in PairGroups,
                                              g2 \in PairGroups},
       binsize \in CcBinSizes, windowsize \in CcWindows,
       ep \in {Omitted, IntervalSetArg(<<<<0, 1>>>>)},
       norm \in {Omitted, Bool(FALSE)}, reverse \in {Omitted, Bool(TRUE)},
       below \in BOOLEAN :
       CorrelogramCall("compute_crosscorrelogram",
                       Kwargs(group, Omitted, Num(binsize), Num(windowsize),
                              ep, norm, Omitted, reverse), below)

SpecCross == Init /\ [][NextCross]_vars

\* Grouping by value.  The caller builds a Tsd x from a data array as long
\* as t and takes x.to_tsgroup() once
NextGroup ==
    \/ /\ last.op = "init"
       /\ \E t \in TimeArrays, ts \in Eps \cup {NoneTS} :
             \E d \in [1..Len(t) -> Vals] :
                New("Tsd", 1, t, d, ts, <<>>, 0, FALSE, FALSE, TRUE)
    \/ /\ last.op = "new"
       /\ ToTsGroup(1)

SpecGroup == Init /\ [][NextGroup]_vars

\* Perievent alignment of a series on the timestamps of another
MinMax == {<<m>> : m \in (0 - 1)..MaxT} \cup {<<0 - 1, MaxT>>, <<1, 0>>}

NextPeri ==
    /\ last.op = "init"
    /\ \E cls \in Classes, index \in Indexes, rcls \in Classes,
          rindex \in Indexes, minmax \in MinMax :
          \E values \in [1..Len(index) -> Vals] :
             Perievent(Series(cls, index, values),
                       Series(rcls, rindex, rindex), minmax)

SpecPeri == Init /\ [][NextPeri]_vars

\* Metadata.  The caller builds an object with metadata and sets columns,
\* MaxCalls times; the content of a column tells the call that stored it
MetaRows == {1, 2}

ValuesOf(v) ==
    {SeriesVal(TRUE, v), SeriesVal(FALSE, v), ListVal(1, v), ListVal(2, v),
     ScalarVal(v), StrVal(v)}

NameA == StrKey(<<"a">>)
NameB == StrKey(<<"a", "_">>)

NextMeta ==
    \/ \E cls \in MetaClasses, n \in MetaRows : MetaNew(cls, n)
    \* one column under every name, as keyword, dict, DataFrame or Series
    \/ /\ last.op \in {"meta_new", "set_info"}
       /\ \E chars \in Strings :
             LET v == objs[1].calls + 1
                 value == ListVal(objs[1].n, v)
             IN \/ SetInfo(NoMetadata, << <<StrKey(chars), value>> >>)
                \/ SetInfo(NoMetadata,
                           << <<NameA, value>>, <<StrKey(chars), value>> >>)
                \/ SetInfo(DictArg(<< <<StrKey(chars), value>> >>), <<>>)
                \/ SetInfo(DataFrameArg(TRUE, << <<StrKey(chars), v>> >>),
                           <<>>)
                \/ SetInfo(SeriesArg(<< <<StrKey(chars), v>> >>), <<>>)
    \* a key that is no string
    \/ /\ last.op \in {"meta_new", "set_info"}
       /\ LET v == objs[1].calls + 1
              value == ListVal(objs[1].n, v)
          IN \/ SetInfo(DictArg(<< <<NonStrKey, value>> >>), <<>>)
             \/ SetInfo(DataFrameArg(TRUE, << <<NonStrKey, v>> >>), <<>>)
             \/ SetInfo(DictArg(<< <<NameA, value>>, <<NonStrKey, value>> >>),
                        <<>>)
    \* one or two columns of valid names, of every kind of value
    \/ /\ last.op \in {"meta_new", "set_info"}
       /\ \E v1 \in ValuesOf(objs[1].calls + 1) :
             \/ SetInfo(NoMetadata, << <<NameA, v1>> >>)
             \/ \E v2 \in ValuesOf(objs[1].calls + 1) :
                   \/ SetInfo(NoMetadata, << <<NameA, v1>>, <<NameB, v2>> >>)
                   \/ SetInfo(DictArg(<< <<NameA, v1>> >>),
                              << <<NameB, v2>> >>)
             \/ \E match \in BOOLEAN :
                   SetInfo(DataFrameArg(match,
                                        << <<NameA, objs[1].calls + 1>> >>),
                           << <<NameB, v1>> >>)
             \/ SetInfo(ListArg, << <<NameA, v1>> >>)
             \/ SetInfo(OtherArg, << <<NameA, v1>> >>)

SpecMeta == Init /\ [][NextMeta]_vars

\* ================================================================ claims
\* the containers the caller's variables hold
Held == {i \in Slots : IsContainer(objs[i])}

\* a container whose index and values have the same length
Aligned(c) == Len(c.values) = Len(c.index)

\* restrict as the class of x resolves it
RestrictOf(x, ep) ==
    IF x.cls = "TsdFrame" THEN TsdFrame_restrict(x, ep, 0, FALSE).out
    ELSE Tsd_restrict(x, ep, 0, FALSE).out

\* the positions of the samples of x inside ep, in order
Inside(x, ep) == SetToSortedSeq({i \in DOMAIN x.index : InEp(x.index[i], ep)})

\* ---------------------------------------------------------------- C1
\* C1: in every container a sequence of constructions, restrict, item
\* access, count, bin_average, threshold and value_from reaches, every
\* timestamp of index lies inside an interval of the container's own
\* time_support.
C1_IndexInsideSupport ==
    \A i \in Held : \A k \in DOMAIN objs[i].index :
       InEp(objs[i].index[k], objs[i].time_support)

C1_Witness ==
    /\ last.op = "count"
    /\ ~last.raised
    /\ Len(objs[1].index) > 1

\* ---------------------------------------------------------------- C2
\* C2: the time_support of every reachable container is canonical: start <=
\* end in every interval, the intervals ascending and disjoint; a container
\* without samples holds such a set too (possibly the empty one).
C2_SupportCanonical ==
    \A i \in Held : IsCanonical(objs[i].time_support)

C2_Witness ==
    /\ last.op = "threshold"
    /\ ~last.raised
    /\ Len(objs[1].time_support) > 1

\* ---------------------------------------------------------------- C3
\* C3: after every construction and every restrict, rate equals len(index)
\* divided by the total duration of the container's time_support, also for
\* one sample, for no sample, and for a restrict that retains no sample.
C3_RateConsistent ==
    (last.op \in {"new", "restrict"} /\ IsContainer(last.out)) =>
       last.out.rate =
          Div(Len(last.out.index), TotalDuration(last.out.time_support))

\* ---------------------------------------------------------------- C4
\* C4: x.restrict(ep) returns, without raising, a container that holds
\* exactly the (time, data) pairs of x with start <= t <= end for an interval
\* of ep, and whose time_support is ep; also for an ep without intervals and
\* for an ep that holds none of x's timestamps.
C4_RestrictContract ==
    (last.op = "restrict" /\ Aligned(last.x)) =>
       /\ ~last.raised
       /\ IsContainer(last.out)
       /\ last.out.index =
             [j \in DOMAIN Inside(last.x, last.info.ep) |->
                last.x.index[Inside(last.x, last.info.ep)[j]]]
       /\ last.out.values =
             [j \in DOMAIN Inside(last.x, last.info.ep) |->
                last.x.values[Inside(last.x, last.info.ep)[j]]]
       /\ last.out.time_support = last.info.ep

\* ---------------------------------------------------------------- C5
\* C5 as stated: x.restrict(A).restrict(B) equals x.restrict(intersect(A, B))
\* in index, data and time_support, for all interval sets A and B.
C5_RestrictCommutesAsStated ==
    (last.op = "restrict" /\ ~last.raised /\ Aligned(last.x)) =>
       \A B \in Eps :
          LET lhs == RestrictOf(last.out, B)
              rhs == RestrictOf(last.x, intersect(last.info.ep, B))
          IN /\ lhs.index = rhs.index
             /\ lhs.values = rhs.values
             /\ lhs.time_support = rhs.time_support

\* C5, amended: for x with index and data of the same length,
\* x.restrict(A).restrict(B) equals x.restrict(intersect(A, B)) in index and
\* data (and class and column labels); x.restrict(A).restrict(A) equals
\* x.restrict(A) in index, data and time_support.
C5_RestrictCommutes ==
    (last.op = "restrict" /\ ~last.raised /\ Aligned(last.x)) =>
       /\ \A B \in Eps :
             LET lhs == RestrictOf(last.out, B)
                 rhs == RestrictOf(last.x, intersect(last.info.ep, B))
             IN /\ ~lhs.raised /\ ~rhs.raised
                /\ lhs.cls = rhs.cls
                /\ lhs.columns = rhs.columns
                /\ lhs.index = rhs.index
                /\ lhs.values = rhs.values
       /\ LET again == RestrictOf(last.out, last.info.ep)
          IN /\ again.index = last.out.index
             /\ again.values = last.out.values
             /\ again.time_support = last.out.time_support

C5_Witness ==
    /\ last.op = "restrict"
    /\ ~last.raised
    /\ Aligned(last.x)
    /\ Len(last.info.ep) = 2
    /\ Len(last.out.index) = 2
    /\ \E B \in Eps :
          /\ intersect(last.info.ep, B) # B
          /\ Len(RestrictOf(last.out, B).index) = 1

\* ---------------------------------------------------------------- C6
\* C6: for a valid integer or slice key, x[key] is a container of the class
\* of x (a Ts stays a Ts, a TsdFrame keeps its column labels) that holds the
\* selected samples, with the time_support [first selected time, last
\* selected time].
C6_Selected(x, key) ==
    IF key[1] = "int" THEN <<key[2] + 1>>
    ELSE [j \in 1..Len(Slice(x.index, key[2], key[3])) |->
             Clamp(key[2], Len(x.index)) + j]

C6_GetItemContract ==
    (/\ last.op = "getitem"
     /\ Aligned(last.x)
     /\ C6_Selected(last.x, last.info.key) # <<>>
     /\ \A j \in DOMAIN C6_Selected(last.x, last.info.key) :
           C6_Selected(last.x, last.info.key)[j] \in DOMAIN last.x.index) =>
       LET sel == C6_Selected(last.x, last.info.key) IN
       /\ ~last.raised
       /\ IsContainer(last.out)
       /\ last.out.cls = last.x.cls
       /\ last.x.cls = "TsdFrame" => last.out.columns = last.x.columns
       /\ last.out.index = [j \in DOMAIN sel |-> last.x.index[sel[j]]]
       /\ last.out.values = [j \in DOMAIN sel |-> last.x.values[sel[j]]]
       /\ last.out.time_support =
             <<<<last.x.index[sel[1]], last.x.index[sel[Len(sel)]]>>>>

\* ---------------------------------------------------------------- C7
\* C7: Tsd(t, d) with len(d) # len(t), and TsdFrame(t, d) with a leading
\* axis of d that differs from len(t), raise, with and without a
\* time_support; no reachable container has index and data of different
\* lengths.
C7_LengthsChecked ==
    /\ (/\ last.op = "new"
        /\ last.info.m \in {"Tsd", "TsdFrame"}
        /\ Len(last.info.d) # Len(last.info.t)) => last.raised
    /\ \A i \in Held : Len(objs[i].index) = objs[i].view.len

\* ---------------------------------------------------------------- C8
\* C8: restrict, count, bin_average, threshold, value_from and interpolate
\* leave the index, values, time_support and rate of the receiver and of the
\* arguments as they were, whether they return or raise, and what they
\* return is a new object.
PureOps ==
    {"restrict", "count", "bin_average", "threshold", "value_from",
     "interpolate"}

C9_ExclusiveOwnership ==
    (last.op = "setitem" /\ ~last.raised) => last.frame

\* --------------------------------------------------------------- C10
\* C10: for x.count(bin_size, ep), every interval of ep a whole number (one
\* or more) of bins long, the counts add up to the number of timestamps of x inside ep,
\* boundaries included (len(x.restrict(ep))), wherever the timestamps lie.
C10_Ep == IF last.info.ep = NoneTS THEN last.x.time_support ELSE last.info.ep

C10_CountConservation ==
    (/\ last.op = "count"
     /\ ~last.raised
     /\ last.info.n > 0
     /\ \A k \in DOMAIN C10_Ep :
           /\ C10_Ep[k][2] > C10_Ep[k][1]
           /\ (C10_Ep[k][2] - C10_Ep[k][1]) % last.info.n = 0) =>
       SumSeq(last.out.values) = Len(Inside(last.x, C10_Ep))

\* --------------------------------------------------------------- C11
\* C11: x.count(bin_size, ep) returns a Tsd whose time_support is the
\* counting interval set (ep if given, otherwise x.time_support).  With a
\* bin_size b every sample is a bin of an interval: its time is
\* start + (k + 1/2)*b and its value the number of timestamps of x in
\* [start + k*b, start + (k+1)*b).  Without a bin_size there is one sample
\* per interval, at start + (end - start)/2, holding the number of
\* timestamps inside that interval.
C11_IsBin(x, ep, b, t, v) ==
    \E k \in DOMAIN ep, j \in 0..MaxT :
       /\ t = ep[k][1] + j * b + b \div 2
       /\ v = Cardinality({i \in DOMAIN x.index :
                              /\ ep[k][1] + j * b <= x.index[i]
                              /\ x.index[i] < ep[k][1] + (j + 1) * b})

C11_CountContract ==
    (last.op = "count" /\ ~last.raised) =>
       /\ last.out.cls = "Tsd"
       /\ Aligned(last.out)
       /\ last.out.time_support = C10_Ep
       /\ IF last.info.n > 0
          THEN \A i \in DOMAIN last.out.index :
                  C11_IsBin(last.x, C10_Ep, last.info.n,
                            last.out.index[i], last.out.values[i])
          ELSE /\ Len(last.out.index) = Len(C10_Ep)
               /\ \A k \in DOMAIN C10_Ep :
                     /\ last.out.index[k] =
                           C10_Ep[k][1] + (C10_Ep[k][2] - C10_Ep[k][1]) \div 2
                     /\ last.out.values[k] =
                           Cardinality({i \in DOMAIN last.x.index :
                                          InIv(last.x.index[i], C10_Ep[k])})

\* --------------------------------------------------------------- C12
\* C12: for a Tsd x and one of the four methods, x.threshold(thr, method)
\* that returns holds exactly the samples of x whose data satisfies the
\* comparison with thr, and its time_support is exactly the maximal runs of
\* consecutive qualifying samples inside one interval of x.time_support: a
\* run boundary next to a neighbour that does not qualify lies at the
\* midpoint of the two timestamps, a run that reaches the first or last
\* sample of the interval starts or ends at that sample's timestamp.
C12_Compare(v, thr, method) ==
    /\ v # NaN
    /\ \/ method = "above" /\ v > thr
       \/ method = "below" /\ v < thr
       \/ method = "aboveequal" /\ v >= thr
       \/ method = "belowequal" /\ v <= thr

C12_Next(x, i, j) == SameIv(x.time_support, x.index[i], x.index[j])

C12_IsRun(x, thr, method, a, b) ==
    /\ a <= b
    /\ \A i \in a..b : C12_Compare(x.values[i], thr, method)
    /\ \A i \in a..(b - 1) : C12_Next(x, i, i + 1)
    /\ ~(/\ a > 1
         /\ C12_Next(x, a - 1, a)
         /\ C12_Compare(x.values[a - 1], thr, method))
    /\ ~(/\ b < Len(x.index)
         /\ C12_Next(x, b, b + 1)
         /\ C12_Compare(x.values[b + 1], thr, method))

C12_Runs(x, thr, method) ==
    {<<IF a > 1 /\ C12_Next(x, a - 1, a)
       THEN (x.index[a - 1] + x.index[a]) \div 2 ELSE x.index[a],
       IF b < Len(x.index) /\ C12_Next(x, b, b + 1)
       THEN (x.index[b] + x.index[b + 1]) \div 2 ELSE x.index[b]>> :
         <<a, b>> \in {p \in (DOMAIN x.index) \X (DOMAIN x.index) :
                          C12_IsRun(x, thr, method, p[1], p[2])}}

C12_ThresholdContract ==
    (/\ last.op = "threshold"
     /\ ~last.raised
     /\ last.x.cls = "Tsd"
     /\ Aligned(last.x)
     /\ last.info.m \in Methods) =>
       LET sel == SetToSortedSeq(
                     {i \in DOMAIN last.x.index :
                         C12_Compare(last.x.values[i], last.info.n,
                                     last.info.m)})
       IN /\ last.out.cls = "Tsd"
          /\ last.out.index = [j \in DOMAIN sel |-> last.x.index[sel[j]]]
          /\ last.out.values = [j \in DOMAIN sel |-> last.x.values[sel[j]]]
          /\ IsCanonical(last.out.time_support)
          /\ Range(last.out.time_support) =
                C12_Runs(last.x, last.info.n, last.info.m)

C12_Witness ==
    /\ last.op = "threshold"
    /\ ~last.raised
    /\ last.x.cls = "Tsd"
    /\ Aligned(last.x)
    /\ Len(last.x.index) = 2
    /\ Len(last.out.index) = 1
    /\ last.out.time_support = <<<<1, 2>>>>

C14_Ep == IF last.info.ep = NoneTS THEN last.y.time_support ELSE last.info.ep

C14_Targets(r) ==
    {i \in DOMAIN last.y.index : SameIv(C14_Ep, r, last.y.index[i])}

C14_Dist(a, b) == IF a < b THEN b - a ELSE a - b

C14_ValueFromClosest ==
    (last.op = "value_from" /\ ~last.raised /\ Aligned(last.y)) =>
       LET ref == Inside(last.x, C14_Ep) IN
       /\ Len(last.out.index) = Len(RestrictOf(last.x, C14_Ep).index)
       /\ Len(last.out.values) = Len(last.out.index)
       /\ last.out.index = [j \in DOMAIN ref |-> last.x.index[ref[j]]]
       /\ \A j \in DOMAIN last.out.index :
             LET r == last.out.index[j] IN
             C14_Targets(r) # {} =>
                \E i \in C14_Targets(r) :
                   /\ last.out.values[j] = last.y.values[i]
                   /\ \A i2 \in C14_Targets(r) :
                         \/ C14_Dist(last.y.index[i], r)
                               < C14_Dist(last.y.index[i2], r)
                         \/ /\ C14_Dist(last.y.index[i], r)
                                  = C14_Dist(last.y.index[i2], r)
                            /\ last.y.index[i] <= last.y.index[i2]

C14_Witness ==
    /\ last.op = "value_from"
    /\ ~last.raised
    /\ Aligned(last.y)
    /\ last.x.index = <<1>>
    /\ last.y.index = <<0, 2>>
    /\ last.y.values = <<1, 0>>
    /\ last.out.values = <<1>>

\* --------------------------------------------------------------- C15
\* C15: for a Tsd x and a Ts, Tsd or TsdFrame y, x.interpolate(y, ep), ep
\* defaulting to x.time_support, returns a Tsd on the timestamps of
\* y.restrict(ep) with the time_support ep; a value is the interpolation of
\* the samples of x in the same interval of ep only: the value of x at a
\* timestamp x has, NaN when x has no sample in that interval.
C15_Ep == IF last.info.ep = NoneTS THEN last.x.time_support ELSE last.info.ep

C15_InterpolateContract ==
    (/\ last.op = "interpolate"
     /\ last.x.cls = "Tsd"
     /\ Aligned(last.x)
     /\ Aligned(last.y)) =>
       LET ref == Inside(last.y, C15_Ep) IN
       /\ ~last.raised
       /\ last.out.cls = "Tsd"
       /\ last.out.index = [j \in DOMAIN ref |-> last.y.index[ref[j]]]
       /\ Len(last.out.values) = Len(last.out.index)
       /\ last.out.index # <<>> => last.out.time_support = C15_Ep
       /\ \A j \in DOMAIN last.out.index :
             LET r == last.out.index[j]
                 I == {i \in DOMAIN last.x.index :
                          SameIv(C15_Ep, r, last.x.index[i])}
             IN /\ I = {} => last.out.values[j] = NaN
                /\ \A i \in I :
                      last.x.index[i] = r =>
                         last.out.values[j] = last.x.values[i]

\* --------------------------------------------------------------- C16
\* C16: restrict, count, bin_average, value_from and interpolate called
\* with an ep that is neither an IntervalSet nor None raise, and return no
\* result computed on the time_support of the series.
C16_InvalidEpRaises ==
    (/\ last.op \in {"restrict", "count", "bin_average", "value_from",
                     "interpolate"}
     /\ last.info.ep = NotAnIntervalSet) => last.raised

\* --------------------------------------------------------------- C17
\* C17: count and bin_average called with a time_units outside
\* {'s', 'ms', 'us'} raise, whatever the other arguments are and whether
\* time_units is passed by keyword or by position, with or without a
\* bin_size.
C17_InvalidUnitsRaise ==
    (/\ last.op \in {"count", "bin_average"}
     /\ last.x.cls # "TsdFrame" \/ last.op = "bin_average"
     /\ last.info.m \notin Units
     /\ last.info.m # "none") => last.raised

\* --------------------------------------------------------------- C18
\* C18 as stated: for sorted arrays t1 and t2, _cross_correlogram(t1, t2,
\* binsize, windowsize) returns C, B with C[j] * len(t1) * binsize equal to
\* the number of pairs (i, k) whose lag t2[k] - t1[i] lies in
\* [B[j] - binsize/2, B[j] + binsize/2).
C18_Twice(f) == IF f[2] = 1 THEN 2 * f[1] ELSE f[1]

C18_Pairs(t1, t2, centre2, binsize) ==
    Cardinality({p \in (DOMAIN t1) \X (DOMAIN t2) :
                    /\ centre2 - binsize <= 2 * (t2[p[2]] - t1[p[1]])
                    /\ 2 * (t2[p[2]] - t1[p[1]]) < centre2 + binsize})

C18_Histogram ==
    /\ Len(last.out.C) = Len(last.out.B)
    /\ \A j \in DOMAIN last.out.C :
          /\ last.out.C[j][2] # 0
          /\ last.out.C[j][1] * Len(last.t1) * last.binsize =
                C18_Pairs(last.t1, last.t2, C18_Twice(last.out.B[j]),
                          last.binsize) * last.out.C[j][2]

C18_CursorIsHistogramAsStated ==
    last.op = "cross_correlogram" => C18_Histogram

\* C18, amended: the same for a t1 that is not empty (for an empty t1
\* every C[j] is nan); t1 = [0], t2 = [1], binsize 1 and 2*windowsize + 1
\* bins give 1 in the bin of lag 1 (offset windowsize + 1) and 0 in every
\* other bin.
C18_CursorIsHistogram ==
    (last.op = "cross_correlogram" /\ last.t1 # <<>>) =>
       /\ C18_Histogram
       /\ (/\ last.t1 = <<0>>
           /\ last.t2 = <<1>>
           /\ last.binsize = 1
           /\ Len(last.out.C) = 2 * last.windowsize + 1) =>
             \A j \in DOMAIN last.out.C :
                last.out.C[j] =
                   IF j = last.windowsize + 2 THEN <<1, 1>> ELSE Zero

C18_Witness ==
    /\ last.op = "cross_correlogram"
    /\ last.t1 = <<0>>
    /\ last.t2 = <<1>>
    /\ last.binsize = 1
    /\ last.windowsize = 2
    /\ Len(last.out.C) = 5
    /\ last.out.C[4] = <<1, 1>>

\* --------------------------------------------------------------- C19
\* C19: when windowsize W is a positive integer multiple of binsize b,
\* _cross_correlogram and compute_autocorrelogram return exactly
\* 2*W/b + 1 bins whose centres are -W, -W + b, ..., 0, ..., W.
C19_Centres(B, b, W) ==
    /\ Len(B) = 2 * (W \div b) + 1
    /\ \A j \in DOMAIN B : B[j] = <<(j - 1) * b - W, 1>>

C19_BinCentres ==
    /\ (last.op = "cross_correlogram"
          /\ last.windowsize % last.binsize = 0) =>
            C19_Centres(last.out.B, last.binsize, last.windowsize)
    /\ (last.op = "compute_autocorrelogram" /\ last.group # <<>>
          /\ last.windowsize % last.binsize = 0) =>
            C19_Centres(last.out.index, last.binsize, last.windowsize)

\* --------------------------------------------------------------- C20
\* C20: compute_autocorrelogram returns, for every unit of the group and
\* for norm=True and norm=False, 0.0 at the bin of lag 0 (which exists),
\* and in every other bin the unit's cross-correlogram with itself,
\* divided by the unit's rate when norm=True.
C20_Rate(n) ==
    Div(Len(last.group[n]), TotalDuration(last.support))

C20_Scaled(c, n) ==
    IF ~last.norm THEN c
    ELSE IF c = Nan \/ C20_Rate(n) = Nan THEN Nan
    ELSE IF C20_Rate(n) = Zero THEN (IF c = Zero THEN Nan ELSE Inf)
    ELSE IF C20_Rate(n) = Inf THEN Zero
    ELSE Div(c[1] * C20_Rate(n)[2], c[2] * C20_Rate(n)[1])

C21_GroupOk(func, group) ==
    \/ group.cls = "TsGroup"
    \/ /\ func = "compute_crosscorrelogram"
       /\ group.cls \in {"tuple", "list"}
       /\ Len(group.items) = 2
       /\ \A i \in 1..2 : group.items[i].cls = "TsGroup"

C21_ClassOk(param, x) ==
    CASE param \in {"binsize", "windowsize"} -> x.cls \in {"Number", "bool"}
      [] param = "ep" -> x.cls = "IntervalSet"
      [] param \in {"norm", "reverse"} -> x.cls = "bool"
      [] param = "time_units" -> x.cls = "str"
      [] param = "event" -> x.cls \in {"Ts", "Tsd"}

C21_Offending(func, kwargs) ==
    {p \in {"binsize", "windowsize", "ep", "norm", "time_units", "reverse",
            "event"} :
       kwargs[p].cls # "omitted" /\ ~C21_ClassOk(p, kwargs[p])}
      \cup (IF kwargs.group.cls = "omitted"
                  \/ C21_GroupOk(func, kwargs.group)
            THEN {} ELSE {"group"})

C21_TypeErrors ==
    (last.op = "call" /\ C21_Offending(last.func, last.call) # {}) =>
       /\ last.out.raised
       /\ last.out.err = "TypeError"
       /\ last.out.param \in C21_Offending(last.func, last.call)

\* --------------------------------------------------------------- C22
\* C22: compute_crosscorrelogram on one TsGroup returns one column per
\* unordered pair of keys, labelled (i, j) in the order of
\* itertools.combinations, i the reference and j the target; with
\* reverse=True every column is labelled and computed as (j, i); on a
\* tuple of two TsGroups the columns are the product of the two key lists,
\* the reference taken from the first group; with norm=True every column
\* is divided by the rate of its target.
C22_Units(group, ep) ==
    [n \in DOMAIN group.v |->
       IF ep.cls = "IntervalSet"
       THEN SetToSortedSeq({group.v[n][i] : i \in
               {i \in DOMAIN group.v[n] : InEp(group.v[n][i], ep.ep)}})
       ELSE group.v[n]]

C22_Rate(group, ep, n) ==
    Div(Len(C22_Units(group, ep)[n]),
        TotalDuration(IF ep.cls = "IntervalSet" THEN ep.ep
                      ELSE group.support))

\* the column of reference unit i of g1 and target unit j of g2
C22_Column(g1, i, g2, j) ==
    LET cc == cross_correlogram(C22_Units(g1, last.call.ep)[i],
                                C22_Units(g2, last.call.ep)[j],
                                last.call.binsize.num,
                                last.call.windowsize.num, last.below)
    IN [b \in DOMAIN cc.C |->
          IF last.call.norm.cls = "omitted"
          THEN FDiv(cc.C[b], C22_Rate(g2, last.call.ep, j))
          ELSE cc.C[b]]

\* (i, j) comes before (k, l) in the order of combinations and of product
C22_Before(p, q) == p[1] < q[1] \/ (p[1] = q[1] /\ p[2] < q[2])

C22_Flip(p) == <<p[2], p[1]>>

C22_Columns ==
    (/\ last.op = "call"
     /\ last.func = "compute_crosscorrelogram"
     /\ last.call.group.cls \in {"TsGroup", "tuple"}) =>
       LET group == last.call.group
           labels == last.out.labels
           reverse == group.cls = "TsGroup"
                         /\ last.call.reverse.cls # "omitted"
           pair(k) == IF reverse THEN C22_Flip(labels[k]) ELSE labels[k]
           g1 == IF group.cls = "tuple" THEN group.items[1] ELSE group
           g2 == IF group.cls = "tuple" THEN group.items[2] ELSE group
       IN
       /\ ~last.out.raised
       /\ DOMAIN last.out.cols = DOMAIN labels
       /\ {pair(k) : k \in DOMAIN labels} =
             IF group.cls = "tuple"
             THEN (DOMAIN g1.v) \X (DOMAIN g2.v)
             ELSE {p \in (DOMAIN group.v) \X (DOMAIN group.v) : p[1] < p[2]}
       /\ \A k, l \in DOMAIN labels : k < l => C22_Before(pair(k), pair(l))
       /\ \A k \in DOMAIN labels :
             last.out.cols[k] = C22_Column(g1, labels[k][1], g2, labels[k][2])

\* three units, reverse=True: the columns (2, 1), (3, 1), (3, 2), the
\* column (2, 1) with reference unit 2 = [1] and target unit 1 = [0]
C22_Witness ==
    /\ last.op = "call"
    /\ last.func = "compute_crosscorrelogram"
    /\ last.call.group.cls = "TsGroup"
    /\ last.call.group.v = <<<<0>>, <<1>>, <<0, 2>>>>
    /\ last.call.reverse = Bool(TRUE)
    /\ last.call.norm.cls = "omitted"
    /\ last.call.ep.cls = "omitted"
    /\ last.call.binsize.num = 1
    /\ last.call.windowsize.num = 1
    /\ ~last.below
    /\ last.out.labels = <<<<2, 1>>, <<3, 1>>, <<3, 2>>>>
    /\ last.out.cols[1] = <<<<2, 1>>, Zero, Zero>>

\* --------------------------------------------------------------- C23
\* C23: compute_crosscorrelogram given a list [g1, g2] of two TsGroups does
\* not raise and returns what it returns for the tuple (g1, g2).
C23_ListAsTuple ==
    (/\ last.op = "call"
     /\ last.func = "compute_crosscorrelogram"
     /\ last.call.group.cls = "list") =>
       /\ ~last.out.raised
       /\ last.out = wrapper(last.func,
                             [last.call EXCEPT
                                !.group = TupleOf(last.call.group.items)],
                             last.below)

\* --------------------------------------------------------------- C24
\* C24: a call of compute_autocorrelogram, compute_crosscorrelogram or
\* compute_eventcorrelogram that passes ep=None does not raise and returns
\* what the same call without ep returns.
C24_WithoutEp ==
    wrapper(last.func, [last.call EXCEPT !.ep = Omitted], last.below)

C24_NoneIsDefault ==
    (/\ last.op = "call"
     /\ last.call.ep.cls = "NoneType"
     /\ ~C24_WithoutEp.raised) =>
       /\ ~last.out.raised
       /\ last.out = C24_WithoutEp

\* --------------------------------------------------------------- C30
\* C30: swapping reference and target mirrors the cross-correlogram about
\* lag 0: with C12 = _cross_correlogram(t1, t2, binsize, windowsize) and
\* C21 = _cross_correlogram(t2, t1, binsize, windowsize) over nbins bins,
\* len(t2) * C21[nbins - 1 - j] = len(t1) * C12[j] for every bin j.
\* n * f on floats: nan stays nan
C30_Times(n, f) == IF f[2] = 0 THEN f ELSE Div(n * f[1], f[2])

\* == on floats: nan equals nothing
C30_Eq(f, g) == f # Nan /\ g # Nan /\ f = g

C30_Swapped ==
    cross_correlogram(last.t2, last.t1, last.binsize, last.windowsize,
                      last.below).C

C30_Mirror ==
    last.op = "cross_correlogram" =>
       /\ Len(C30_Swapped) = Len(last.out.C)
       /\ \A j \in DOMAIN last.out.C :
             C30_Eq(C30_Times(Len(last.t2),
                              C30_Swapped[Len(last.out.C) + 1 - j]),
                    C30_Times(Len(last.t1), last.out.C[j]))

\* --------------------------------------------------------------- C28
\* C28: a Tsd or TsdFrame constructed from timestamps in any order has an
\* ascending index, and values[i] is the data element that was given
\* together with index[i].
C28_SortedInSync ==
    (/\ last.op = "new"
     /\ last.info.m \in {"Tsd", "TsdFrame"}
     /\ Len(last.info.d) = Len(last.info.t)
     /\ ~last.raised) =>
       /\ \A i \in DOMAIN last.out.index :
             i > 1 => last.out.index[i - 1] < last.out.index[i]
       /\ Len(last.out.values) = Len(last.out.index)
       /\ \A i \in DOMAIN last.out.index :
             \E k \in DOMAIN last.info.t :
                /\ last.info.t[k] = last.out.index[i]
                /\ last.info.d[k] = last.out.values[i]

\* --------------------------------------------------------------- C27
\* C27: tsd.to_tsgroup() returns a group with one member per distinct value
\* k of the data, member k holding exactly the timestamps of tsd whose
\* value is k: the members are pairwise disjoint, their union is the index
\* of tsd, and every member and the group carry the time_support of tsd.
C27_Partition ==
    (last.op = "to_tsgroup" /\ Aligned(last.x)) =>
       LET x == last.x
           g == last.out
       IN
       /\ ~last.raised
       /\ Range(g.keys) = Range(x.values)
       /\ Len(g.keys) = Cardinality(Range(x.values))
       /\ DOMAIN g.members = DOMAIN g.keys
       /\ \A j \in DOMAIN g.keys :
             /\ Range(g.members[j].index) =
                   {x.index[i] : i \in {i \in DOMAIN x.index :
                                           x.values[i] = g.keys[j]}}
             /\ Len(g.members[j].index) =
                   Cardinality(Range(g.members[j].index))
             /\ g.members[j].time_support = x.time_support
       /\ \A j, k \in DOMAIN g.keys :
             j # k => Range(g.members[j].index)
                         \cap Range(g.members[k].index) = {}
       /\ UNION {Range(g.members[j].index) : j \in DOMAIN g.keys} =
             Range(x.index)
       /\ g.time_support = x.time_support

\* Tsd(t=[0, 1], d=[1, 0]).to_tsgroup(): member 0 holds [1], member 1 [0]
C27_Witness ==
    /\ last.op = "to_tsgroup"
    /\ last.x.index = <<0, 1>>
    /\ last.x.values = <<1, 0>>
    /\ last.out.keys = <<0, 1>>
    /\ last.out.members[1].index = <<1>>
    /\ last.out.members[2].index = <<0>>

\* --------------------------------------------------------------- C25
\* C25: compute_perievent(data, tref, minmax) for a Ts or Tsd data returns
\* a group with one member per timestamp r_i of tref (keys 0..len(tref)-1,
\* ref_times the timestamps of tref); member i holds exactly the samples of
\* data with r_i - |min| <= t <= r_i + |max|, shifted to t - r_i; every
\* member and the group have the time support [-|min|, |max|]; a number m
\* as minmax is the window (m, m); a tref that is no Ts/Tsd or a data that
\* is no Ts/Tsd/TsGroup raises RuntimeError.
C25_Min == Abs(last.minmax[1])

C25_Max == Abs(last.minmax[Len(last.minmax)])

C25_InWindow(i) ==
    {k \in DOMAIN last.data.index :
       /\ last.tref.index[i] - C25_Min <= last.data.index[k]
       /\ last.data.index[k] <= last.tref.index[i] + C25_Max}

C25_Perievent ==
    last.op = "compute_perievent" =>
       IF last.tref.cls \notin {"Ts", "Tsd"}
          \/ last.data.cls \notin {"Ts", "Tsd"}
       THEN last.raised /\ last.out.cls = "RuntimeError"
       ELSE LET g == last.out
                n == Len(last.tref.index)
            IN
            /\ ~last.raised
            /\ g.keys = [i \in 1..n |-> i - 1]
            /\ g.ref_times = last.tref.index
            /\ g.time_support = <<<<0 - C25_Min, C25_Max>>>>
            /\ DOMAIN g.members = 1..n
            /\ \A i \in 1..n :
                  LET ix == SetToSortedSeq(C25_InWindow(i)) IN
                  /\ g.members[i].index =
                        [j \in DOMAIN ix |->
                           last.data.index[ix[j]] - last.tref.index[i]]
                  /\ last.data.cls = "Tsd" =>
                        g.members[i].values =
                           [j \in DOMAIN ix |-> last.data.values[ix[j]]]
                  /\ g.members[i].time_support =
                        <<<<0 - C25_Min, C25_Max>>>>

\* --------------------------------------------------------------- C26
\* C26: set_info rejects, before it stores anything, every column name
\* that is no string (TypeError), and every name that is an attribute of
\* the object or a column label of a TsdFrame, that does not start with a
\* letter, or that holds a character other than letters, digits and
\* underscores (ValueError); so every stored column name is a string like
\* an identifier that is no attribute of the object.
C26_Valid(self, name) ==
    /\ name.str
    /\ name.chars \notin Attributes
    /\ name.chars \notin ColumnLabels(self)
    /\ name.chars # <<>>
    /\ name.chars[1] = "a"
    /\ \A i \in DOMAIN name.chars : name.chars[i] \in {"a", "1", "_"}

\* the column names a call passes
C26_Names ==
    LET md == last.metadata
        pairs == IF md.kind = "DataFrame" THEN md.columns
                 ELSE IF md.kind = "dict" THEN md.pairs
                 ELSE IF md.kind = "Series" /\ last.self.len = 1
                 THEN md.entries
                 ELSE <<>>
    IN {pairs[i][1] : i \in DOMAIN pairs}
          \cup {last.kwargs[i][1] : i \in DOMAIN last.kwargs}

C26_Invalid == {name \in C26_Names : ~C26_Valid(last.self, name)}

C26_NamesChecked ==
    last.op = "set_info" =>
       /\ C26_Invalid # {} =>
             /\ last.raised
             /\ last.err \in {IF name.str THEN "ValueError" ELSE "TypeError" :
                                 name \in C26_Invalid}
             /\ objs[1].cols = last.self.cols
       /\ \A i \in DOMAIN objs[1].cols :
             C26_Valid(objs[1], objs[1].cols[i][1])

\* --------------------------------------------------------------- C29
\* C29: when set_info raises, for any reason, the metadata of the object is
\* what it was before the call.
C29_RaiseLeavesMetadata ==
    (last.op = "set_info" /\ last.raised) =>
       objs[1].cols = last.self.cols

====
